---- MODULE Spec2Model ----
(***************************************************************************)
(* MessTrack (ai-aura/run): the shared document, the undo/redo log, the    *)
(* attendance handlers, the month archive and the statistics calculator,   *)
(* as state machines translated from the JavaScript sources.               *)
(*                                                                         *)
(* Conventions.                                                            *)
(*  - A date string "2024-MM-DD" is the number MM*100+DD: the code only    *)
(*    sorts date strings (zero padded, so string order is number order)    *)
(*    and tests their "YYYY-MM" prefix (here: the quotient by 100).        *)
(*  - A JavaScript object is a TLA+ function/record whose DOMAIN is the    *)
(*    set of its own keys; a key holding the value undefined is present    *)
(*    in the DOMAIN and holds UNDEF.                                       *)
(*  - Every handler is an operator from a state record to a state record;  *)
(*    the actions apply the operators to the variables.                    *)
(***************************************************************************)
EXTENDS Integers, Sequences, FiniteSets, TLC

VARIABLES
    data,           \* MessTrack.data: the shared document
    history,        \* UndoManager.history
    currentIndex,   \* UndoManager.currentIndex (0-based, -1 = nothing applied)
    nextId,         \* the next fresh value generateId() returns
    ls,             \* localStorage: the messtrack_* keys
    pendingWrites,  \* EnhancedDataManager.pendingWrites (with its write timer)
    today,          \* the wall clock's local date
    running,        \* FALSE when the MessTrack constructor threw at page load
    stats,          \* the last result of calculateMonthlyStats
    nm,             \* the NotificationManager: permission, scheduledNotifications,
                    \* checkIntervals (the active interval timers), lastCheckedMinute
    reminderTimeouts, \* the setTimeout timers MessTrack.scheduleReminder has set
    clock,          \* the time of day, in half minutes since StartMinute
    presented,      \* how many times each reminder was presented, and when
    nmDisabled,     \* notifications were toggled off and not enabled again since
    store,          \* localStorage as StorageManager sees it: the stored dates
                    \* and the length of the item being written
    sm,             \* what the last StorageManager.safeSetItem call did
    fetcher,        \* the NetworkRetry.fetchWithRetry call in progress: its
                    \* retryCount, the outcome of each fetch and each delay waited
    sw,             \* the service worker: the caches, the cache.put calls not
                    \* made yet, and how the last fetch event was answered
    bk,             \* what the last import did: the data it found and the
                    \* backup files it downloaded
    called,         \* the last markAttendance call: its arguments, the document
                    \* and the log it found, and what it reported
    upload,         \* the MessTrack.uploadToGitHub call in progress: its attempt
                    \* number, the outcome of each attempt and each wait
    bm,             \* the BackupManager: lastBackupDate, backupFrequency, the
                    \* day of the clock, and whether the reminder banner shows
    memo,           \* the caches of EnhancedAttendanceManager, the clock of
                    \* their time-to-live, and the answer to the last query
    rle             \* a text, what compressData makes of it and what
                    \* decompressData makes of that

side == <<nm, clock, presented, nmDisabled>>

\* The variables of the helpers that run beside the application
aux == <<store, sm, fetcher, sw, bk>>

\* The variables of the application
app == <<data, history, currentIndex, nextId, ls, pendingWrites, today, running, stats,
         reminderTimeouts, side>>

\* The variables that observe single calls
rest == <<called, upload, bm, memo, rle>>
exceptCalled == <<upload, bm, memo, rle>>
exceptUpload == <<called, bm, memo, rle>>
exceptBm == <<called, upload, memo, rle>>
exceptMemo == <<called, upload, bm, rle>>
exceptRle == <<called, upload, bm, memo>>

vars == <<app, aux, rest>>

(***************************************************************************)
(* Bounds of the model.                                                    *)
(***************************************************************************)
MaxRecorded == 2      \* recordAction calls explored by SpecRecord and SpecLog
MaxEdits == 2         \* recordAction calls explored by Spec and SpecUndo
MaxBatch == 1         \* longest update list given to batchMarkAttendance
MaxCapRecorded == 52  \* recordAction calls explored by SpecCap
MaxStatDays == 4      \* days of a month the statistics inputs range over
MaxHalfMinutes == 4   \* half minutes the clock of SpecNotify runs for
MaxMarked == 1        \* recordAction calls explored by SpecNotify
MaxStoreDate == 4     \* the stored records are dated 1..MaxStoreDate
MaxLength == 3        \* the longest value safeSetItem is given
StoreQuota == 5       \* the browser's storage quota, in records
MaxRetries == 3       \* the largest maxRetries a NetworkRetry is constructed with
MaxUploadRetries == 3 \* the largest retries uploadToGitHub is called with
MaxHalfDays == 6      \* the half days SpecBackup lets pass
MaxChars == 3         \* the longest string or number of the documents of SpecText
MaxDepth == 2         \* the deepest nesting of arrays of these documents
MaxRun == 11          \* the longest run of one character (the runs start at 9)

(***************************************************************************)
(* Dates.                                                                  *)
(***************************************************************************)
DateKey(m, d) == m * 100 + d
MonthOf(key) == key \div 100
DayOf(key) == key % 100

\* Date: days of each month of 2024 (new Date() normalises overflowing days).
DaysInMonth(m) ==
    IF m = 2 THEN 29 ELSE IF m \in {4, 6, 9, 11} THEN 30 ELSE 31

Meals == {"lunch", "dinner"}

\* The value undefined held by an object key.
UNDEF == [undefined |-> TRUE]
NewRecord == [lunch |-> FALSE, dinner |-> FALSE]

\* obj[key] for a JavaScript object: undefined when the key is absent.
Get(obj, key) == IF key \in DOMAIN obj THEN obj[key] ELSE UNDEF
\* obj[key] = value
Put(obj, key, value) ==
    [k \in DOMAIN obj \cup {key} |-> IF k = key THEN value ELSE obj[k]]
\* delete obj[key]
Delete(obj, key) == [k \in DOMAIN obj \ {key} |-> obj[k]]
EmptyObject == <<>>

(***************************************************************************)
(* localStorage items.  setItem stores String(value): JSON.stringify of an *)
(* object drops the keys that hold undefined, and JSON.stringify of        *)
(* undefined is undefined, stored as the text "undefined", which           *)
(* JSON.parse rejects.                                                     *)
(***************************************************************************)
NoItem == [kind |-> "none"]
UndefinedText == [kind |-> "undefined"]
JsonItem(v) == [kind |-> "json", val |-> v]

\* JSON.parse(JSON.stringify(obj)) for a one-level object of plain values.
JsonObject(obj) == [k \in {x \in DOMAIN obj : obj[x] # UNDEF} |-> obj[k]]

\* JSON.stringify(this.data[field]) as stored by setItem (of the four fields
\* only the attendance map ever holds an undefined value).
Stringify(doc, field) ==
    IF field \notin DOMAIN doc THEN UndefinedText
    ELSE IF field = "attendance" THEN JsonItem(JsonObject(doc[field]))
    ELSE JsonItem(doc[field])

\* MessTrack.saveData
saveData(s) ==
    [s EXCEPT !.ls = [@ EXCEPT !.attendance = Stringify(s.data, "attendance"),
                               !.summaries = Stringify(s.data, "summaries"),
                               !.notes = Stringify(s.data, "notes"),
                               !.settings = Stringify(s.data, "settings")]]

(***************************************************************************)
(* UndoManager                                                             *)
(***************************************************************************)
maxHistorySize == 50

\* UndoManager.saveHistory
saveHistory(s) ==
    [s EXCEPT !.ls = [@ EXCEPT !.undo_history =
        JsonItem([history |-> s.history, currentIndex |-> s.currentIndex])]]

\* recordAction that keeps the undone entries (no truncation at the cursor)
recordActionNoTruncate(s, action) ==
    LET pushed == Append(s.history,
                         [type |-> action.type, data |-> action.data, id |-> s.nextId])
        over == Len(pushed) > maxHistorySize
    IN saveHistory([s EXCEPT !.history = IF over THEN Tail(pushed) ELSE pushed,
                             !.currentIndex = IF over THEN @ ELSE @ + 1,
                             !.nextId = @ + 1])

\* recordAction that never evicts (no size limit)
recordActionNoLimit(s, action) ==
    LET kept == SubSeq(s.history, 1, s.currentIndex + 1)
        pushed == Append(kept,
                         [type |-> action.type, data |-> action.data, id |-> s.nextId])
    IN saveHistory([s EXCEPT !.history = pushed,
                             !.currentIndex = @ + 1,
                             !.nextId = @ + 1])

\* UndoManager.recordAction
recordAction(s, action) ==
    LET kept == SubSeq(s.history, 1, s.currentIndex + 1)
        pushed == Append(kept,
                         [type |-> action.type, data |-> action.data, id |-> s.nextId])
        over == Len(pushed) > maxHistorySize
    IN saveHistory([s EXCEPT !.history = IF over THEN Tail(pushed) ELSE pushed,
                             !.currentIndex = IF over THEN @ ELSE @ + 1,
                             !.nextId = @ + 1])

\* UndoManager.canUndo / canRedo
canUndo(s) == s.currentIndex >= 0
canRedo(s) == s.currentIndex < Len(s.history) - 1

\* this.app.data.attendance[date][mealType] = value; saveData()
SetMeal(s, date, mealType, value) ==
    saveData([s EXCEPT !.data.attendance =
        Put(@, date, [Get(@, date) EXCEPT ![mealType] = value])])

\* UndoManager.undoMarkAttendance / redoUnmarkAttendance: only when the record exists
undoMarkAttendance(s, action) ==
    IF Get(s.data.attendance, action.data.date) # UNDEF
    THEN SetMeal(s, action.data.date, action.data.mealType, FALSE)
    ELSE s

\* UndoManager.redoMarkAttendance / undoUnmarkAttendance: creates the record if needed
redoMarkAttendance(s, action) ==
    LET date == action.data.date
        s1 == IF Get(s.data.attendance, date) = UNDEF
              THEN [s EXCEPT !.data.attendance = Put(@, date, NewRecord)]
              ELSE s
    IN SetMeal(s1, date, action.data.mealType, TRUE)

undoUnmarkAttendance(s, action) == redoMarkAttendance(s, action)
redoUnmarkAttendance(s, action) == undoMarkAttendance(s, action)

\* changes.forEach of undoBulkEdit: oldValue restored, or the entry deleted
RECURSIVE UndoChanges(_, _)
UndoChanges(att, changes) ==
    IF changes = <<>> THEN att
    ELSE LET change == Head(changes)
             oldValue == Get(change, "oldValue")
         IN UndoChanges(IF oldValue # UNDEF THEN Put(att, change.date, oldValue)
                                            ELSE Delete(att, change.date),
                        Tail(changes))

\* changes.forEach of redoBulkEdit: attendance[date] = change.newValue
RECURSIVE RedoChanges(_, _)
RedoChanges(att, changes) ==
    IF changes = <<>> THEN att
    ELSE LET change == Head(changes)
         IN RedoChanges(Put(att, change.date, Get(change, "newValue")), Tail(changes))

\* UndoManager.undoBulkEdit
undoBulkEdit(s, action) ==
    saveData([s EXCEPT !.data.attendance = UndoChanges(@, action.data.changes)])

\* UndoManager.redoBulkEdit
redoBulkEdit(s, action) ==
    saveData([s EXCEPT !.data.attendance = RedoChanges(@, action.data.changes)])

\* UndoManager.executeUndo: the action types the repository records
\* (mark_attendance, unmark_attendance, bulk_edit; 'export' falls to default)
executeUndo(s, action) ==
    CASE action.type = "mark_attendance" -> undoMarkAttendance(s, action)
      [] action.type = "unmark_attendance" -> undoUnmarkAttendance(s, action)
      [] action.type = "bulk_edit" -> undoBulkEdit(s, action)
      [] OTHER -> s

\* UndoManager.executeRedo
executeRedo(s, action) ==
    CASE action.type = "mark_attendance" -> redoMarkAttendance(s, action)
      [] action.type = "unmark_attendance" -> redoUnmarkAttendance(s, action)
      [] action.type = "bulk_edit" -> redoBulkEdit(s, action)
      [] OTHER -> s

\* undo() without its canUndo() test: the cursor is moved before
\* executeUndo throws on the missing action
undoUnguarded(s) ==
    IF ~canUndo(s) THEN [s EXCEPT !.currentIndex = @ - 1]
    ELSE saveHistory(executeUndo([s EXCEPT !.currentIndex = @ - 1],
                                 s.history[s.currentIndex + 1]))

\* What undo() and redo() return
undoReturns(s) == canUndo(s)
redoReturns(s) == canRedo(s)

\* UndoManager.undo (history is 0-based in the code, 1-based here)
undo(s) ==
    IF ~canUndo(s) THEN s
    ELSE saveHistory(executeUndo([s EXCEPT !.currentIndex = @ - 1],
                                 s.history[s.currentIndex + 1]))

\* UndoManager.redo
redo(s) ==
    IF ~canRedo(s) THEN s
    ELSE saveHistory(executeRedo([s EXCEPT !.currentIndex = @ + 1],
                                 s.history[s.currentIndex + 2]))

(***************************************************************************)
(* EnhancedDataManager: the batched writer                                 *)
(***************************************************************************)
\* EnhancedUtils.compressData, as the item localStorage then holds: the
\* run-length text is used only when shorter than the JSON text, which needs
\* a run of three equal characters; the JSON text of an attendance map of
\* 2024 dates has none, so the JSON text is what is stored.
compressData(obj) == JsonItem(JsonObject(obj))

\* The object a pending write refers to: the live attendance object of the
\* document, or (once this.data was replaced) the detached old object.
PendingData(s, key) ==
    IF s.pendingWrites[key].live THEN s.data.attendance ELSE s.pendingWrites[key].data

\* EnhancedDataManager.flush (the only key the attendance manager writes is
\* messtrack_attendance, with compress: true)
flush(s) ==
    IF "attendance" \in DOMAIN s.pendingWrites
    THEN [s EXCEPT !.ls.attendance = compressData(PendingData(s, "attendance")),
                   !.pendingWrites = EmptyObject]
    ELSE s

\* EnhancedDataManager.save('messtrack_attendance', this.app.data.attendance, ...)
save(s, immediate) ==
    LET s1 == [s EXCEPT !.pendingWrites = Put(@, "attendance", [live |-> TRUE])]
    IN IF immediate THEN flush(s1) ELSE s1

(***************************************************************************)
(* Attendance handlers                                                     *)
(***************************************************************************)
\* if (!attendance[date]) attendance[date] = { lunch: false, dinner: false }
InitRecord(s, date) ==
    IF Get(s.data.attendance, date) = UNDEF
    THEN [s EXCEPT !.data.attendance = Put(@, date, NewRecord)]
    ELSE s

\* attendance[date][type] = !previousState
Toggle(s, date, type) ==
    [s EXCEPT !.data.attendance[date][type] = ~@]

\* The action both markAttendance handlers record
MarkAction(date, type, previousState) ==
    [type |-> IF ~previousState THEN "mark_attendance" ELSE "unmark_attendance",
     data |-> [date |-> date, mealType |-> type, previousState |-> previousState]]

\* markAttendance that records the action type the wrong way round
markAttendanceSwapped(s, type, now) ==
    IF type \notin Meals THEN s
    ELSE LET s1 == InitRecord(s, now)
             previousState == s1.data.attendance[now][type]
         IN saveData(recordAction(Toggle(s1, now, type),
                                  MarkAction(now, type, ~previousState)))

\* MessTrack.markAttendance(type), called when the clock shows the date now
markAttendance(s, type, now) ==
    IF type \notin Meals THEN s
    ELSE LET s1 == InitRecord(s, now)
             previousState == s1.data.attendance[now][type]
         IN saveData(recordAction(Toggle(s1, now, type),
                                  MarkAction(now, type, previousState)))

\* A date that is not of the form YYYY-MM-DD; the dates that are, DateKey
\* writes as numbers from 0 to 9999
BadDate == -1
IsDateText(date) == date \in 0..9999

\* EnhancedAttendanceManager.markAttendance without the test of the date
enhancedMarkAttendanceAnyDate(s, type, date, skipUndo, batch) ==
    IF type \notin Meals THEN s
    ELSE LET s1 == InitRecord(s, date)
             previousState == s1.data.attendance[date][type]
             s2 == Toggle(s1, date, type)
             s3 == IF skipUndo THEN s2
                   ELSE recordAction(s2, MarkAction(date, type, previousState))
         IN IF batch THEN s3 ELSE save(s3, FALSE)

\* EnhancedAttendanceManager.markAttendance(type, date, {skipUndo, batch}),
\* skipValidation left false as every caller leaves it
enhancedMarkAttendance(s, type, date, skipUndo, batch) ==
    IF type \notin Meals \/ ~IsDateText(date) THEN s
    ELSE LET s1 == InitRecord(s, date)
             previousState == s1.data.attendance[date][type]
             s2 == Toggle(s1, date, type)
             s3 == IF skipUndo THEN s2
                   ELSE recordAction(s2, MarkAction(date, type, previousState))
         IN IF batch THEN s3 ELSE save(s3, FALSE)

\* The value enhancedMarkAttendance returns
MarkResult(s, type, date) ==
    IF type \notin Meals \/ ~IsDateText(date) THEN [success |-> FALSE]
    ELSE [success |-> TRUE, date |-> date, type |-> type,
          newState |-> ~InitRecord(s, date).data.attendance[date][type]]

\* for (const update of updates) results.push(await this.markAttendance(...))
RECURSIVE BatchLoop(_, _, _)
BatchLoop(s, updates, results) ==
    IF updates = <<>> THEN [s |-> s, results |-> results]
    ELSE LET u == Head(updates)
         IN BatchLoop(enhancedMarkAttendance(s, u.type, u.date, TRUE, TRUE),
                      Tail(updates),
                      Append(results, MarkResult(s, u.type, u.date)))

\* EnhancedAttendanceManager.batchMarkAttendance(updates)
batchMarkAttendance(s, updates) ==
    LET done == BatchLoop(s, updates, <<>>)
        saved == save(done.s, TRUE)
    IN recordAction(saved,
        [type |-> "bulk_edit",
         data |-> [changes |-> [i \in 1..Len(updates) |->
                      [date |-> updates[i].date, mealType |-> updates[i].type,
                       result |-> done.results[i]]]]])

\* selectedDays.forEach of bulkMarkMeal
RECURSIVE BulkMarkDays(_, _, _)
BulkMarkDays(att, days, type) ==
    IF days = {} THEN att
    ELSE LET d == CHOOSE x \in days : TRUE
             rec == IF Get(att, d) = UNDEF THEN NewRecord ELSE att[d]
             marked == [lunch |-> rec.lunch \/ type \in {"lunch", "both"},
                        dinner |-> rec.dinner \/ type \in {"dinner", "both"}]
         IN BulkMarkDays(Put(att, d, marked), days \ {d}, type)

\* MessTrack.bulkMarkMeal(type) with this.selectedDays = selectedDays
bulkMarkMeal(s, type, selectedDays) ==
    IF selectedDays = {} THEN s
    ELSE saveData([s EXCEPT !.data.attendance = BulkMarkDays(@, selectedDays, type)])

\* MessTrack.bulkClearMeals() with this.selectedDays = selectedDays, confirmed
bulkClearMeals(s, selectedDays) ==
    IF selectedDays = {} THEN s
    ELSE saveData([s EXCEPT !.data.attendance =
            [d \in DOMAIN @ |-> IF d \in selectedDays /\ @[d] # UNDEF
                                THEN NewRecord ELSE @[d]]])

\* AdvancedExportManager.exportToExcel: prepareExcelData reads day.lunch and
\* notes[date] of every date of the current month and throws on undefined;
\* the catch then skips the recordAction
exportToExcel(s, now) ==
    LET monthDates == {d \in DOMAIN s.data.attendance : MonthOf(d) = MonthOf(now)}
        throws == \/ \E d \in monthDates : s.data.attendance[d] = UNDEF
                  \/ monthDates # {} /\ "notes" \notin DOMAIN s.data
    IN IF throws THEN s
       ELSE recordAction(s, [type |-> "export",
                             data |-> [format |-> "excel", month |-> MonthOf(now)]])

(***************************************************************************)
(* The document: construction, load, month archive, reset, import, notes   *)
(***************************************************************************)
\* MessTrack constructor: this.data.settings (github credentials left empty)
DefaultSettings ==
    [theme |-> "light", notifications |-> FALSE, lunchTime |-> "12:00",
     dinnerTime |-> "19:00"]

\* MessTrack constructor: this.data
DefaultData ==
    [attendance |-> EmptyObject, summaries |-> EmptyObject, notes |-> EmptyObject,
     settings |-> DefaultSettings]

\* { ...a, ...b }
Spread(a, b) ==
    [k \in DOMAIN a \cup DOMAIN b |-> IF k \in DOMAIN b THEN b[k] ELSE a[k]]

\* num.toFixed(1) of (attended / possible) * 100, in tenths (500 is "50.0"):
\* the nearest tenth, the larger one on a tie
ToFixed1(attended, possible) == (2000 * attended + possible) \div (2 * possible)

\* MessTrack.loadData: JSON.parse of every item present
LoadThrows(s) ==
    \E k \in {"attendance", "summaries", "notes", "settings"} :
        s.ls[k] = UndefinedText

loadData(s) ==
    [s EXCEPT !.data =
        [attendance |-> IF s.ls.attendance = NoItem THEN DefaultData.attendance
                        ELSE s.ls.attendance.val,
         summaries |-> IF s.ls.summaries = NoItem THEN DefaultData.summaries
                       ELSE s.ls.summaries.val,
         notes |-> IF s.ls.notes = NoItem THEN DefaultData.notes
                   ELSE s.ls.notes.val,
         settings |-> IF s.ls.settings = NoItem THEN DefaultSettings
                      ELSE Spread(DefaultSettings, s.ls.settings.val)]]

\* previousMonth.setMonth(previousMonth.getMonth() - 1) on new Date(): the day
\* of the month is kept, and a day the shorter previous month does not have
\* rolls over into the month after it
PreviousMonthKey(now) ==
    LET m == MonthOf(now)
    IN IF DayOf(now) > DaysInMonth(m - 1) THEN m ELSE m - 1

\* The summary archivePreviousMonth computes for monthKey
MonthSummary(att, monthKey) ==
    LET dates == {d \in DOMAIN att : MonthOf(d) = monthKey}
        lunchCount == Cardinality({d \in dates : att[d].lunch})
        dinnerCount == Cardinality({d \in dates : att[d].dinner})
        totalDays == Cardinality(dates)
    IN [lunchCount |-> lunchCount, dinnerCount |-> dinnerCount,
        totalDays |-> totalDays,
        percentage |-> ToFixed1(lunchCount + dinnerCount, totalDays * 2)]

\* MessTrack.archivePreviousMonth (no GitHub token: no sync)
archivePreviousMonth(s, now) ==
    LET monthKey == PreviousMonthKey(now)
        att == s.data.attendance
    IN IF {d \in DOMAIN att : MonthOf(d) = monthKey} # {}
       THEN saveData([s EXCEPT !.data.summaries =
                                   Put(@, monthKey, MonthSummary(att, monthKey))])
       ELSE s

\* MessTrack.checkAndAutoReset
checkAndAutoReset(s, now) ==
    IF s.ls.last_reset # JsonItem(MonthOf(now))
    THEN LET s1 == IF DOMAIN s.data.attendance # {}
                   THEN archivePreviousMonth(s, now) ELSE s
         IN [s1 EXCEPT !.ls.last_reset = JsonItem(MonthOf(now))]
    ELSE s

\* UndoManager.loadHistory: data.currentIndex || -1
loadHistory(s) ==
    IF s.ls.undo_history = NoItem THEN s
    ELSE LET saved == s.ls.undo_history.val
         IN [s EXCEPT !.history = saved.history,
                      !.currentIndex = IF saved.currentIndex = 0 THEN -1
                                       ELSE saved.currentIndex]

\* A page load that gets through the MessTrack constructor: loadData,
\* checkAndAutoReset, then the UndoManager constructor (empty log, loadHistory)
\* and a new EnhancedDataManager (no pending writes)
startApp(s, now) ==
    loadHistory([checkAndAutoReset(loadData(s), now)
                    EXCEPT !.history = <<>>, !.currentIndex = -1,
                           !.pendingWrites = EmptyObject])

\* this.data = ... : a pending write keeps the old attendance object
DetachPending(s) ==
    [s EXCEPT !.pendingWrites =
        [k \in DOMAIN @ |-> IF @[k].live
                            THEN [live |-> FALSE, data |-> s.data.attendance]
                            ELSE @[k]]]

\* MessTrack.resetAllData, both confirms accepted
resetAllData(s) ==
    [DetachPending(s) EXCEPT
        !.data = [attendance |-> EmptyObject, summaries |-> EmptyObject,
                  settings |-> [theme |-> "dark", notifications |-> FALSE]],
        !.ls = [@ EXCEPT !.attendance = NoItem, !.summaries = NoItem,
                         !.settings = NoItem, !.last_reset = NoItem]]

\* MessTrack.importData, reader.onload with the confirm accepted:
\* this.data = importedData.data
importData(s, doc) == saveData([DetachPending(s) EXCEPT !.data = doc])

\* MessTrack.toggleTheme (a settings change: assignment, then saveData)
toggleTheme(s) ==
    saveData([s EXCEPT !.data.settings.theme = IF @ = "dark" THEN "light" ELSE "dark"])

\* notes[now][field] = text; saveData()  (addNote and saveSkipReason)
SetNote(s, now, field, text) ==
    saveData([s EXCEPT !.data.notes =
        Put(@, now, Put(IF Get(@, now) = UNDEF THEN EmptyObject ELSE @[now],
                        field, text))])

\* Whether addNote / saveSkipReason runs to its end: this.data.notes[today]
\* throws a TypeError when this.data.notes is undefined
NoteSucceeds(s) == "notes" \in DOMAIN s.data

\* MessTrack.addNote with the prompt answered by note
addNote(s, note, now) ==
    IF NoteSucceeds(s) THEN SetNote(s, now, "note", note) ELSE s

\* MessTrack.saveSkipReason with customReason = reason
saveSkipReason(s, reason, now) ==
    IF NoteSucceeds(s) THEN SetNote(s, now, "skipReason", reason) ELSE s

(***************************************************************************)
(* StatisticsManager                                                       *)
(***************************************************************************)
\* [...dates].sort(): the ascending sequence of a set of date keys
RECURSIVE Sorted(_)
Sorted(dates) ==
    IF dates = {} THEN <<>>
    ELSE LET least == CHOOSE d \in dates : \A e \in dates : d <= e
         IN <<least>> \o Sorted(dates \ {least})

\* .reverse()
Reverse(seq) == [i \in 1..Len(seq) |-> seq[Len(seq) + 1 - i]]

\* day.lunch || day.dinner
AnyMeal(day) == day.lunch \/ day.dinner

\* the for loop of calculateCurrentStreak over the dates, latest first
RECURSIVE StreakLoop(_, _)
StreakLoop(sortedDates, attendance) ==
    IF sortedDates = <<>> THEN 0
    ELSE IF AnyMeal(attendance[Head(sortedDates)])
         THEN 1 + StreakLoop(Tail(sortedDates), attendance)
         ELSE 0

\* a current streak that skips the unattended dates instead of stopping
RECURSIVE StreakLoopNoBreak(_, _)
StreakLoopNoBreak(sortedDates, attendance) ==
    IF sortedDates = <<>> THEN 0
    ELSE (IF AnyMeal(attendance[Head(sortedDates)]) THEN 1 ELSE 0)
         + StreakLoopNoBreak(Tail(sortedDates), attendance)

calculateCurrentStreakNoBreak(dates, attendance) ==
    StreakLoopNoBreak(Reverse(dates), attendance)

\* StatisticsManager.calculateCurrentStreak (AdvancedExportManager has the same)
calculateCurrentStreak(dates, attendance) ==
    StreakLoop(Reverse(dates), attendance)

\* the forEach of calculateLongestStreak
RECURSIVE LongestLoop(_, _, _, _)
LongestLoop(sortedDates, attendance, maxStreak, currentStreak) ==
    IF sortedDates = <<>> THEN maxStreak
    ELSE IF AnyMeal(attendance[Head(sortedDates)])
         THEN LongestLoop(Tail(sortedDates), attendance,
                          IF currentStreak + 1 > maxStreak THEN currentStreak + 1
                          ELSE maxStreak,
                          currentStreak + 1)
         ELSE LongestLoop(Tail(sortedDates), attendance, maxStreak, 0)

\* a longest streak that returns the run in progress at the end of the month
RECURSIVE LastRunLoop(_, _, _)
LastRunLoop(sortedDates, attendance, currentStreak) ==
    IF sortedDates = <<>> THEN currentStreak
    ELSE LastRunLoop(Tail(sortedDates), attendance,
                     IF AnyMeal(attendance[Head(sortedDates)])
                     THEN currentStreak + 1 ELSE 0)

calculateLongestStreakLastRun(dates, attendance) ==
    LastRunLoop(dates, attendance, 0)

\* StatisticsManager.calculateLongestStreak
calculateLongestStreak(dates, attendance) ==
    LongestLoop(dates, attendance, 0, 0)

\* the percentage cut to a tenth instead of rounded
AttendancePercentageTruncated(attended, possible) ==
    IF possible > 0 THEN (1000 * attended) \div possible ELSE 0

\* stats.attendancePercentage, in tenths: toFixed(1), or 0 without any day
AttendancePercentage(attended, possible) ==
    IF possible > 0 THEN ToFixed1(attended, possible) ELSE 0

\* StatisticsManager.calculateMonthlyStats with this.currentMonth = monthKey
calculateMonthlyStats(attendance, monthKey) ==
    LET dateSet == {d \in DOMAIN attendance : MonthOf(d) = monthKey}
        dates == Sorted(dateSet)
        hasLunch(d) == attendance[d].lunch = TRUE
        hasDinner(d) == attendance[d].dinner = TRUE
        lunchCount == Cardinality({d \in dateSet : hasLunch(d)})
        dinnerCount == Cardinality({d \in dateSet : hasDinner(d)})
    IN [monthKey |-> monthKey,
        totalDays |-> Len(dates),
        lunchCount |-> lunchCount,
        dinnerCount |-> dinnerCount,
        bothMealsCount |-> Cardinality({d \in dateSet : hasLunch(d) /\ hasDinner(d)}),
        onlyLunchCount |-> Cardinality({d \in dateSet : hasLunch(d) /\ ~hasDinner(d)}),
        onlyDinnerCount |-> Cardinality({d \in dateSet : ~hasLunch(d) /\ hasDinner(d)}),
        skippedBothCount |-> Cardinality({d \in dateSet : ~hasLunch(d) /\ ~hasDinner(d)}),
        totalMealsAttended |-> lunchCount + dinnerCount,
        totalPossibleMeals |-> Len(dates) * 2,
        attendancePercentage |-> AttendancePercentage(lunchCount + dinnerCount,
                                                      Len(dates) * 2),
        currentStreak |-> calculateCurrentStreak(dates, attendance),
        longestStreak |-> calculateLongestStreak(dates, attendance)]

(***************************************************************************)
(* NotificationManager, and the reminder timeouts of MessTrack             *)
(***************************************************************************)
\* mealTime.split(':').map(Number): a time of day HH:MM, in minutes
TimeOf(text) ==
    CASE text = "12:00" -> 720
      [] text = "12:30" -> 750
      [] text = "19:00" -> 1140

\* The clock starts a minute before noon; new Date() at clock c shows the minute
StartMinute == TimeOf("12:00") - 1
NowMinute(c) == StartMinute + c \div 2

\* lastCheckedMinute = null
NoMinute == -1

\* settings.lunchTime || '12:00'
SettingOr(settings, key, default) ==
    IF key \in DOMAIN settings THEN settings[key] ELSE default

\* NotificationManager.scheduleMealReminder: 30, 15 and 5 minutes before the
\* meal, and at the time of the meal
scheduleMealReminder(mealType, mealTime) ==
    {[id |-> <<mealType, "before", b>>, mealType |-> mealType,
      time |-> (TimeOf(mealTime) - b) % 1440] : b \in {30, 15, 5}}
    \cup {[id |-> <<mealType, "at_time", 0>>, mealType |-> mealType,
           time |-> TimeOf(mealTime)]}

\* setInterval(callback, period) at clock c, period in half minutes
Timer(kind, period, c) == [kind |-> kind, period |-> period, due |-> c + period]

\* NotificationManager.scheduleAllReminders: clearAllIntervals, the reminders
\* of both meals, one interval of 30 seconds
scheduleAllReminders(n, settings, c) ==
    IF n.permission # "granted" THEN n
    ELSE [n EXCEPT
            !.scheduledNotifications =
                scheduleMealReminder("lunch", SettingOr(settings, "lunchTime", "12:00"))
                \cup scheduleMealReminder("dinner", SettingOr(settings, "dinnerTime", "19:00")),
            !.checkIntervals = {Timer("poll", 1, c)}]

\* NotificationManager.scheduleDailySummary
scheduleDailySummary(n) ==
    [n EXCEPT !.scheduledNotifications =
        @ \cup {[id |-> <<"summary", "daily", 0>>, mealType |-> "summary", time |-> 1260]}]

\* const isMarked = attendance && attendance[notification.mealType]
IsMarked(attendance, day, mealType) ==
    LET record == Get(attendance, day)
    IN IF record = UNDEF THEN FALSE
       ELSE IF mealType \in DOMAIN record THEN record[mealType] ELSE FALSE

\* a check that presents the due reminders whatever the attendance
ToPresentUnguarded(n, attendance, day, minute) ==
    IF n.lastCheckedMinute = minute THEN {}
    ELSE {x \in n.scheduledNotifications : x.time = minute}

\* NotificationManager.checkScheduledNotifications: the notifications it
\* presents (showNotification and showInAppNotification) ...
ToPresent(n, attendance, day, minute) ==
    IF n.lastCheckedMinute = minute THEN {}
    ELSE {x \in n.scheduledNotifications :
             x.time = minute /\ ~IsMarked(attendance, day, x.mealType)}

\* ... and the manager it leaves
checkScheduledNotifications(n, minute) == [n EXCEPT !.lastCheckedMinute = minute]

\* NotificationManager constructor and init: checkPermission,
\* loadScheduledNotifications (stored is the localStorage item),
\* setupNotificationChecks (the immediate check is made by the caller, then an
\* interval of one minute for the checks and one for the weekly reminder)
NewNotificationManager(permission, stored, c) ==
    [permission |-> permission,
     scheduledNotifications |-> IF stored = NoItem THEN {} ELSE stored.val,
     checkIntervals |-> {Timer("check", 2, c), Timer("weekly", 2, c)},
     lastCheckedMinute |-> NoMinute]

\* NotificationManager.enable, Notification.requestPermission() resolving to
\* outcome: requestPermission schedules the reminders, enable schedules them
\* again and adds the daily summary (the test notification is no reminder)
enable(n, outcome, settings, c) ==
    LET asked == [n EXCEPT !.permission = outcome]
    IN IF outcome = "granted"
       THEN scheduleDailySummary(
                scheduleAllReminders(scheduleAllReminders(asked, settings, c), settings, c))
       ELSE asked

\* NotificationManager.disable
disable(n) ==
    [n EXCEPT !.checkIntervals = {}, !.scheduledNotifications = {},
              !.lastCheckedMinute = NoMinute]

\* NotificationManager.updateNotificationTimes
updateNotificationTimes(n, settings, c) ==
    IF n.permission # "granted" THEN n ELSE scheduleAllReminders(n, settings, c)

\* NotificationManager.saveScheduledNotifications
saveScheduledNotifications(s, n) ==
    [s EXCEPT !.ls.scheduled_notifications = JsonItem(n.scheduledNotifications)]

\* One meal of MessTrack.scheduleReminder: a timeout for 30 minutes before the
\* meal, when the meal is not marked and that time is still to come
ReminderTimeout(doc, day, c, mealType, key) ==
    LET at == TimeOf(doc.settings[key]) - 30
    IN IF ~IsMarked(doc.attendance, day, mealType) /\ NowMinute(c) < at
       THEN <<[mealType |-> mealType, due |-> 2 * (at - StartMinute)]>>
       ELSE <<>>

\* MessTrack.scheduleReminder: the timeouts it adds to those already set
\* (this.data.settings.lunchTime.split throws when the setting is missing)
scheduleReminder(timeouts, doc, day, c) ==
    IF ~doc.settings.notifications THEN timeouts
    ELSE IF ~({"lunchTime", "dinnerTime"} \subseteq DOMAIN doc.settings) THEN timeouts
    ELSE timeouts \o ReminderTimeout(doc, day, c, "lunch", "lunchTime")
                  \o ReminderTimeout(doc, day, c, "dinner", "dinnerTime")

\* A reminder is presented: one more presentation of each of the given kinds
Present(shown, kinds) ==
    [k \in DOMAIN shown \cup kinds |->
        (IF k \in DOMAIN shown THEN shown[k] ELSE 0) + (IF k \in kinds THEN 1 ELSE 0)]

\* What is noted of a presentation: who presented which reminder, in which
\* minute, whether the meal was marked then, whether notifications were off
Shown(by, notification, attendance, day, minute, off) ==
    [by |-> by, id |-> notification.id, mealType |-> notification.mealType,
     minute |-> minute,
     marked |-> /\ notification.mealType \in Meals
                /\ day \in DOMAIN attendance
                /\ attendance[day] # UNDEF
                /\ attendance[day][notification.mealType],
     off |-> off]

(***************************************************************************)
(* StorageManager: writes under a storage quota.  Lengths are counted in   *)
(* records: an attendance or notes item is as long as the number of dates  *)
(* it holds, and an item that is absent reads as the empty object.         *)
(***************************************************************************)
\* The date two years before the day of the call: older records are cleaned
cutoffDate == 3

StoreDates == 1..MaxStoreDate

\* The names a browser gives the exception of a write that does not fit, and
\* the name of another failure of setItem
QuotaErrors == {"QuotaExceededError", "NS_ERROR_DOM_QUOTA_REACHED"}
ErrorNames == QuotaErrors \cup {"SecurityError"}

\* getLocalStorageSize, in records
StoreSize(st) ==
    Cardinality(st["messtrack_attendance"]) + Cardinality(st["messtrack_notes"])
        + st["messtrack_settings"]

\* localStorage.setItem: the write throws errorName when the browser refuses
\* storage altogether or when the items no longer fit in the quota
setItem(st, key, value, errorName) ==
    LET written == [st EXCEPT ![key] = value]
    IN IF errorName \notin QuotaErrors \/ StoreSize(written) > StoreQuota
       THEN [ok |-> FALSE, store |-> st]
       ELSE [ok |-> TRUE, store |-> written]

\* StorageManager.cleanOldData: the store it leaves and the number it returns
cleanOldData(st, errorName) ==
    LET attendance == {d \in st["messtrack_attendance"] : ~(d < cutoffDate)}
        notes == {d \in st["messtrack_notes"] : ~(d < cutoffDate)}
        cleaned == Cardinality(st["messtrack_attendance"] \ attendance)
                       + Cardinality(st["messtrack_notes"] \ notes)
        first == setItem(st, "messtrack_attendance", attendance, errorName)
        second == setItem(first.store, "messtrack_notes", notes, errorName)
    IN IF cleaned = 0 THEN [store |-> st, cleaned |-> 0]
       ELSE IF ~first.ok THEN [store |-> st, cleaned |-> 0]
       ELSE IF ~second.ok THEN [store |-> first.store, cleaned |-> 0]
       ELSE [store |-> second.store, cleaned |-> cleaned]

\* StorageManager.safeSetItem(key, value): the store it leaves, what it
\* returns or that it throws, the writes of the value it attempted, and
\* whether it showed the storage-full toast (messTrack: window.messTrack is set)
safeSetItem(st, key, value, errorName, messTrack) ==
    LET first == setItem(st, key, value, errorName)
        clean == cleanOldData(st, errorName)
        retry == setItem(clean.store, key, value, errorName)
        outcome == [called |-> TRUE, quotaError |-> FALSE, cleanRan |-> FALSE,
                    attempts |-> 1, returned |-> TRUE, threw |-> FALSE,
                    warned |-> FALSE]
    IN IF first.ok THEN [store |-> first.store, sm |-> outcome]
       ELSE IF errorName \notin QuotaErrors
       THEN [store |-> st,
             sm |-> [outcome EXCEPT !.returned = FALSE, !.threw = TRUE]]
       ELSE IF clean.cleaned > 0
       THEN [store |-> retry.store,
             sm |-> [outcome EXCEPT !.quotaError = TRUE, !.cleanRan = TRUE,
                                    !.attempts = 2, !.returned = retry.ok]]
       ELSE [store |-> clean.store,
             sm |-> [outcome EXCEPT !.quotaError = TRUE, !.cleanRan = TRUE,
                                    !.returned = FALSE, !.warned = messTrack]]

(***************************************************************************)
(* NetworkRetry: fetchWithRetry, one activation per fetch.  The recursive  *)
(* call is the next activation, with retryCount one higher.                *)
(***************************************************************************)
\* How a fetch settles: a response that is ok, a response that is not, or a
\* rejection (the abort after 15 s included)
FetchOutcomes == {"ok", "notOk", "throws"}

\* The delays new NetworkRetry(maxRetries, baseDelay) is constructed with, in
\* milliseconds (1000 by default)
BaseDelays == {1000, 250}

RECURSIVE Pow2(_)
Pow2(n) == IF n = 0 THEN 1 ELSE 2 * Pow2(n - 1)

NoFetch == [phase |-> "idle", maxRetries |-> 0, baseDelay |-> 1000, retryCount |-> 0,
            attempts |-> <<>>, delays |-> <<>>, result |-> "none"]

\* fetchWithRetry without the test of retryCount in its catch block
fetchWithRetryAlways(f, outcome) ==
    LET tried == [f EXCEPT !.attempts = Append(@, outcome)]
    IN IF outcome = "ok"
       THEN [tried EXCEPT !.phase = "returned", !.result = outcome]
       ELSE [tried EXCEPT !.phase = "waiting",
                          !.delays = Append(@, f.baseDelay * Pow2(f.retryCount))]

\* fetchWithRetry(url, options, f.retryCount) from the moment its fetch
\* settles: it returns the response, throws, or starts the delay before the
\* next activation
fetchWithRetry(f, outcome) ==
    LET tried == [f EXCEPT !.attempts = Append(@, outcome)]
        thrown == outcome = "throws"
                      \/ (outcome = "notOk" /\ f.retryCount < f.maxRetries)
    IN IF ~thrown
       THEN [tried EXCEPT !.phase = "returned", !.result = outcome]
       ELSE IF f.retryCount < f.maxRetries
       THEN [tried EXCEPT !.phase = "waiting",
                          !.delays = Append(@, f.baseDelay * Pow2(f.retryCount))]
       ELSE [tried EXCEPT !.phase = "threw", !.result = "error"]

(***************************************************************************)
(* The service worker (sw.js).  A cache is the set of the URLs it holds a  *)
(* response for; sw.caches maps the name of each existing cache to it.     *)
(***************************************************************************)
CACHE_NAME == "messtrack-v2.0.6"

urlsToCache ==
    {"/", "/index.html", "/app.js", "/app-fixes.js", "/enhanced-core-functions.js",
     "/enhanced-app-improvements.js", "/enhanced-module-improvements.js",
     "/calendar-integration.js", "/glass-ui-enhancer.js", "/glassmorphism-ui.css",
     "/optimization-styles.css", "/manifest.json"}

\* The requests of the page: a file of the app shell, a file that is not, and
\* a script of another origin
RequestUrls == {"/app.js", "/icon.png", "https://cdn.tailwindcss.com"}
RequestMethods == {"GET", "POST"}

\* What the network does with a request: a same-origin 200, a 200 of another
\* origin (type cors), a 404, or a failure
NetworkOutcomes == {"basic200", "cors200", "basic404", "fails"}

NetworkResponse(url, outcome) ==
    [source |-> "network", url |-> url,
     status |-> IF outcome = "basic404" THEN 404 ELSE 200,
     type |-> IF outcome = "cors200" THEN "cors" ELSE "basic"]

CachedResponse(url) ==
    [source |-> "cache", url |-> url, status |-> 200, type |-> "basic"]

\* new Response('Offline - Please check your internet connection', {status: 503})
OfflineResponse(url) ==
    [source |-> "placeholder", url |-> url, status |-> 503, type |-> "default"]

NoResponse == [source |-> "none", url |-> "", status |-> 0, type |-> ""]

NoEvent == [method |-> "", url |-> "", outcome |-> "", cached |-> FALSE,
            intercepted |-> FALSE, networkUsed |-> FALSE, response |-> NoResponse]

\* caches.match(request): some cache holds a response for the URL
CachesMatch(caches, url) == \E name \in DOMAIN caches : url \in caches[name]

\* cache.put(request, response) on caches.open(CACHE_NAME), which creates
\* the cache when it does not exist
CachePutAll(caches, urls) ==
    [name \in DOMAIN caches \cup {CACHE_NAME} |->
        IF name = CACHE_NAME
        THEN (IF name \in DOMAIN caches THEN caches[name] ELSE {}) \cup urls
        ELSE caches[name]]

\* The fetch listener asking the network before it looks in the caches
onFetchNetworkFirst(w, method, url, outcome) ==
    LET event == [NoEvent EXCEPT !.method = method, !.url = url, !.outcome = outcome,
                                 !.cached = CachesMatch(w.caches, url)]
    IN IF method # "GET" THEN [w EXCEPT !.last = event]
       ELSE IF outcome = "fails"
       THEN [w EXCEPT !.last = [event EXCEPT !.intercepted = TRUE, !.networkUsed = TRUE,
                                             !.response = OfflineResponse(url)]]
       ELSE [w EXCEPT !.last = [event EXCEPT !.intercepted = TRUE, !.networkUsed = TRUE,
                                             !.response = NetworkResponse(url, outcome)]]

\* The fetch listener: how the event is answered, and the cache.put it
\* leaves to be made
onFetch(w, method, url, outcome) ==
    LET event == [NoEvent EXCEPT !.method = method, !.url = url, !.outcome = outcome,
                                 !.cached = CachesMatch(w.caches, url)]
        response == NetworkResponse(url, outcome)
    IN IF method # "GET" THEN [w EXCEPT !.last = event]
       ELSE IF CachesMatch(w.caches, url)
       THEN [w EXCEPT !.last = [event EXCEPT !.intercepted = TRUE,
                                             !.response = CachedResponse(url)]]
       ELSE IF outcome = "fails"
       THEN [w EXCEPT !.last = [event EXCEPT !.intercepted = TRUE, !.networkUsed = TRUE,
                                             !.response = OfflineResponse(url)]]
       ELSE IF response.status # 200 \/ response.type # "basic"
       THEN [w EXCEPT !.last = [event EXCEPT !.intercepted = TRUE, !.networkUsed = TRUE,
                                             !.response = response]]
       ELSE [w EXCEPT !.pendingPuts = @ \cup {url},
                      !.last = [event EXCEPT !.intercepted = TRUE, !.networkUsed = TRUE,
                                             !.response = response]]

\* The install listener: cache.addAll adds every file or, failing, none
onInstall(w, added) ==
    IF added THEN [w EXCEPT !.caches = CachePutAll(@, urlsToCache)]
    ELSE [w EXCEPT !.caches = CachePutAll(@, {})]

\* The activate listener deletes every cache but CACHE_NAME
onActivate(w) ==
    [w EXCEPT !.caches = [name \in DOMAIN @ \cap {CACHE_NAME} |-> @[name]]]

(***************************************************************************)
(* The import paths and the backups.  A backup file is modelled by the     *)
(* document it was written from.                                           *)
(***************************************************************************)
\* The data of a backup file: the four fields of the document (JSON.stringify
\* leaves out a field that is undefined)
BackupOf(doc) ==
    [k \in DOMAIN doc \cap {"attendance", "notes", "summaries", "settings"} |-> doc[k]]

NoImport == [path |-> "none", replaced |-> FALSE, before |-> EmptyObject, created |-> {}]

\* clearHistory that empties the log and leaves the cursor where it was
clearHistoryKeepCursor(s) == saveHistory([s EXCEPT !.history = <<>>])

\* UndoManager.clearHistory
clearHistory(s) == saveHistory([s EXCEPT !.history = <<>>, !.currentIndex = -1])

\* undoManager.compressHistory: history.slice(-50) once it is longer than 100
compressHistory(s) ==
    IF Len(s.history) > 100
    THEN LET kept == SubSeq(s.history, Len(s.history) - 49, Len(s.history))
         IN saveHistory([s EXCEPT !.history = kept,
                                  !.currentIndex = IF @ < Len(kept) - 1 THEN @
                                                   ELSE Len(kept) - 1])
    ELSE s

\* value || {}
OrEmpty(obj, key) == IF key \in DOMAIN obj THEN obj[key] ELSE EmptyObject

\* BackupManager.importBackup(file) with the answer given to its confirm
importBackup(s, backupData, confirmed) ==
    IF "data" \notin DOMAIN backupData \/ "version" \notin DOMAIN backupData THEN s
    ELSE IF ~confirmed THEN s
    ELSE LET d == backupData.data
             doc == Spread(s.data,
                           [attendance |-> OrEmpty(d, "attendance"),
                            notes |-> OrEmpty(d, "notes"),
                            summaries |-> OrEmpty(d, "summaries"),
                            settings |-> Spread(OrEmpty(s.data, "settings"),
                                                OrEmpty(d, "settings"))])
         IN clearHistory(saveData([DetachPending(s) EXCEPT !.data = doc]))

\* EnhancedValidation.validateAttendance and validateSettings, on files whose
\* flags are booleans and whose times are HH:MM
validateAttendance(attendance) ==
    \A date \in DOMAIN attendance : {"lunch", "dinner"} \subseteq DOMAIN attendance[date]

validateSettings(settings) ==
    "theme" \in DOMAIN settings => settings.theme \in {"light", "dark"}

\* EnhancedImportManager.validateImportData
validateImportData(importedData) ==
    LET actualData == IF "data" \in DOMAIN importedData THEN importedData.data
                      ELSE importedData
    IN /\ "attendance" \in DOMAIN actualData => validateAttendance(actualData.attendance)
       /\ "settings" \in DOMAIN actualData => validateSettings(actualData.settings)

\* ConflictResolver.resolve for documents, which carry no timestamp: merge
\* keeps every field the local document has and adds the others,
\* last-write-wins keeps the local document
resolve(local, remote, strategy) ==
    IF strategy = "merge" THEN Spread(remote, local) ELSE local

\* EnhancedDataManager.save(key, value, {immediate: true}) three times: each
\* flush writes the key, but for a value that is undefined compressData
\* throws and nothing is written
SaveImported(s) ==
    [s EXCEPT !.ls = [@ EXCEPT
                         !.attendance = IF "attendance" \in DOMAIN s.data
                                        THEN compressData(s.data.attendance) ELSE @,
                         !.notes = IF "notes" \in DOMAIN s.data
                                   THEN JsonItem(s.data.notes) ELSE @,
                         !.settings = IF "settings" \in DOMAIN s.data
                                      THEN JsonItem(s.data.settings) ELSE @],
              !.pendingWrites = EmptyObject]

\* EnhancedImportManager.importData(file, {conflictStrategy}) after its backup
\* step
enhancedImportData(s, importedData, strategy) ==
    IF ~validateImportData(importedData) THEN s
    ELSE LET actualData == IF "data" \in DOMAIN importedData THEN importedData.data
                           ELSE importedData
         IN clearHistory(SaveImported([s EXCEPT !.data = resolve(@, actualData, strategy)]))

\* EnhancedImportManager.createBackup: exportToJSON downloads the document
createBackup(files, doc) == files \cup {BackupOf(doc)}

(***************************************************************************)
(* What a markAttendance call reports                                      *)
(***************************************************************************)
NoCall == [handler |-> "none", type |-> "", date |-> 0, reported |-> "nothing",
           before |-> [attendance |-> EmptyObject, history |-> <<>>, currentIndex |-> -1]]

\* MessTrack.markAttendance returns nothing; for a type that is not a meal it
\* writes console.error('Invalid meal type:', type) first
markAttendanceReport(type) == IF type \notin Meals THEN "console.error" ELSE "nothing"

\* EnhancedAttendanceManager.markAttendance returns {success: ...}, and shows
\* the failure toast from its catch block
enhancedMarkAttendanceReport(s, type, date) ==
    IF MarkResult(s, type, date).success THEN "success" ELSE "failure"

(***************************************************************************)
(* MessTrack.uploadToGitHub, one pass of its loop per attempt              *)
(***************************************************************************)
\* How an attempt ends: the status of the response to the PUT, the abort of
\* the request by its timer, or another rejection of fetch
UploadOutcomes == {"200", "401", "404", "409", "422", "429", "500", "AbortError", "TypeError"}

NoUpload == [phase |-> "idle", retries |-> 0, attempt |-> 0, outcomes |-> <<>>,
             waits |-> <<>>, returned |-> FALSE]

\* The call, up to its first attempt: false at once when GitHub is not
\* configured, or when retries leaves the loop no pass
StartUpload(retries, configured) ==
    IF configured /\ retries >= 1
    THEN [NoUpload EXCEPT !.phase = "attempting", !.retries = retries, !.attempt = 1]
    ELSE [NoUpload EXCEPT !.phase = "done", !.retries = retries]

\* The pass of the loop numbered u.attempt, given how its PUT ends
uploadToGitHub(u, outcome) ==
    LET tried == [u EXCEPT !.outcomes = Append(@, outcome)]
        again == [tried EXCEPT !.attempt = @ + 1]
        last == u.attempt = u.retries
    IN IF outcome = "200" THEN [tried EXCEPT !.phase = "done", !.returned = TRUE]
       ELSE IF outcome \in {"500", "429"} /\ ~last
       THEN [again EXCEPT !.waits = Append(@, Pow2(u.attempt) * 1000)]
       ELSE IF outcome = "AbortError" /\ ~last
       THEN [again EXCEPT !.waits = Append(@, 2000)]
       ELSE IF last THEN [tried EXCEPT !.phase = "done", !.returned = FALSE]
       ELSE [again EXCEPT !.waits = Append(@, 0)]

(***************************************************************************)
(* BackupManager: the backup reminder.  Times are counted in half days.    *)
(***************************************************************************)
HalfDaysPerDay == 2

\* The values of the backup frequency selector, in days (7 by default)
BackupFrequencies == {1, 7}

\* getDaysSinceLastBackup: Math.ceil(Math.abs(now - lastBackup) / one day),
\* 999 when there was no backup
getDaysSinceLastBackup(b) ==
    LET diffTime == IF b.now >= b.lastBackupDate THEN b.now - b.lastBackupDate
                    ELSE b.lastBackupDate - b.now
    IN IF ~b.hasBackupDate THEN 999
       ELSE (diffTime + HalfDaysPerDay - 1) \div HalfDaysPerDay

\* checkBackupStatus: showBackupReminder puts up the banner
checkBackupStatus(b) ==
    LET due == getDaysSinceLastBackup(b) >= b.backupFrequency
    IN IF ~b.autoBackupEnabled THEN b
       ELSE [b EXCEPT !.banner = @ \/ due, !.checked = TRUE, !.checkedAt = b.now,
                      !.shown = due]

\* The Remind Later button: snoozeReminder(), and the banner is removed
snoozeReminder(b) ==
    [b EXCEPT !.lastBackupDate = b.now + HalfDaysPerDay, !.hasBackupDate = TRUE,
              !.banner = FALSE, !.snoozed = TRUE, !.snoozedAt = b.now,
              !.checked = FALSE]

\* createBackup: lastBackupDate = now, and the banner is removed
createBackupNow(b) ==
    [b EXCEPT !.lastBackupDate = b.now, !.hasBackupDate = TRUE, !.banner = FALSE,
              !.snoozed = FALSE, !.checked = FALSE]

\* new BackupManager(app) with nothing stored: init() checks at once
NoBackup ==
    checkBackupStatus([lastBackupDate |-> 0, hasBackupDate |-> FALSE,
                       backupFrequency |-> 7, autoBackupEnabled |-> TRUE, now |-> 0,
                       banner |-> FALSE, snoozed |-> FALSE, snoozedAt |-> 0,
                       checked |-> FALSE, checkedAt |-> 0, shown |-> FALSE])

(***************************************************************************)
(* EnhancedAttendanceManager: the range cache and the memoized statistics. *)
(* Times are counted in half minutes: the ttl of the memo, 30000 ms, is    *)
(* one.  A range result holds the record objects of the attendance map     *)
(* themselves, so the cache keeps the dates of a result and a read of it   *)
(* takes their records from the map: markAttendance, undo and redo of a    *)
(* marked meal change a record in place and never replace or remove it.    *)
(***************************************************************************)

\* EnhancedAttendanceManager._calculateStats(monthKey)
calculateStatsUncached(attendance, monthKey) ==
    LET dateSet == {d \in DOMAIN attendance : MonthOf(d) = monthKey}
        lunchCount == Cardinality({d \in dateSet : attendance[d].lunch = TRUE})
        dinnerCount == Cardinality({d \in dateSet : attendance[d].dinner = TRUE})
    IN [totalDays |-> Cardinality(dateSet),
        lunchCount |-> lunchCount,
        dinnerCount |-> dinnerCount,
        bothCount |-> Cardinality({d \in dateSet : /\ attendance[d].lunch = TRUE
                                                   /\ attendance[d].dinner = TRUE}),
        percentage |-> AttendancePercentage(lunchCount + dinnerCount,
                                            2 * Cardinality(dateSet))]

\* What a query returned: a statistics object or a range object
StatsAnswer(monthKey, result) ==
    [kind |-> "stats", key |-> <<monthKey>>, stats |-> result, range |-> EmptyObject]
RangeAnswer(cacheKey, result) ==
    [kind |-> "range", key |-> cacheKey, range |-> result,
     stats |-> calculateStatsUncached(EmptyObject, 0)]

\* this.calculateStats(monthKey): EnhancedUtils.memoize(_calculateStats,
\* {ttl: 30000, maxSize: 50})
calculateStats(m, attendance, monthKey) ==
    LET hits == {i \in 1..Len(m.stats) : m.stats[i].key = monthKey}
        live == {i \in hits : m.now - m.stats[i].timestamp < 1}
    IN IF live # {}
       THEN [m EXCEPT !.answer =
                StatsAnswer(monthKey, m.stats[CHOOSE i \in live : TRUE].value)]
       ELSE LET unexpired == SelectSeq(m.stats, LAMBDA e : e.key # monthKey)
                result == calculateStatsUncached(attendance, monthKey)
                room == IF Len(unexpired) >= 50 THEN Tail(unexpired) ELSE unexpired
            IN [m EXCEPT !.stats = Append(room, [key |-> monthKey, value |-> result,
                                                 timestamp |-> m.now]),
                         !.answer = StatsAnswer(monthKey, result)]

\* The dates of the records getAttendanceRange(startDate, endDate) collects
RangeDates(attendance, startDate, endDate) ==
    {d \in DOMAIN attendance : startDate <= d /\ d <= endDate /\ attendance[d] # UNDEF}

\* EnhancedAttendanceManager.getAttendanceRange(startDate, endDate)
getAttendanceRange(m, attendance, startDate, endDate) ==
    LET cacheKey == <<startDate, endDate>>
        dates == IF cacheKey \in DOMAIN m.cache THEN m.cache[cacheKey]
                 ELSE RangeDates(attendance, startDate, endDate)
    IN [m EXCEPT !.cache = Put(@, cacheKey, dates),
                 !.answer = RangeAnswer(cacheKey, [d \in dates |-> attendance[d]])]

\* new EnhancedAttendanceManager(app): this.cache = new Map(), and the two
\* maps of EnhancedUtils.memoize (entries in insertion order)
NoMemo == [cache |-> EmptyObject, stats |-> <<>>, now |-> 0,
           answer |-> [RangeAnswer(<<>>, EmptyObject) EXCEPT !.kind = "none"]]

\* this.cache.clear() at the end of a markAttendance call that marked
cacheCleared(m, marked) == IF marked THEN [m EXCEPT !.cache = EmptyObject] ELSE m

(***************************************************************************)
(* EnhancedUtils.compressData and decompressData on texts.  A text is a    *)
(* sequence of characters.  The documents are a string or a number inside  *)
(* any number of one-element arrays: their JSON text is made of brackets,  *)
(* quotes, letters and digits, and over these characters a text is valid   *)
(* JSON exactly when it is the text of such a document or of empty arrays. *)
(***************************************************************************)
DigitChars == <<"0", "1", "2", "3", "4", "5", "6", "7", "8", "9">>
IsDigit(c) == \E n \in 1..10 : DigitChars[n] = c
\* parseInt of one digit character
DigitValue(c) == (CHOOSE n \in 1..10 : DigitChars[n] = c) - 1

\* String(count)
RECURSIVE Decimal(_)
Decimal(count) ==
    IF count < 10 THEN <<DigitChars[count + 1]>>
    ELSE Decimal(count \div 10) \o <<DigitChars[(count % 10) + 1]>>

RECURSIVE Repeat(_, _)
Repeat(c, count) == IF count = 0 THEN <<>> ELSE <<c>> \o Repeat(c, count - 1)

Document(kind, chars, depth) == [kind |-> kind, chars |-> chars, depth |-> depth]
Throws == Document("throws", <<>>, 0)
Null == Document("null", <<>>, 0)

\* JSON.stringify(d)
JsonText(d) ==
    Repeat("[", d.depth)
        \o (IF d.kind = "string" THEN <<"\"">> \o d.chars \o <<"\"">> ELSE d.chars)
        \o Repeat("]", d.depth)

\* JSON.parse(text)
Parse(text) ==
    LET opened == {k \in 0..Len(text) : \A i \in 1..k : text[i] = "["}
        depth == CHOOSE k \in opened : \A j \in opened : j <= k
        closed == /\ Len(text) >= 2 * depth
                  /\ \A i \in 1..depth : text[Len(text) + 1 - i] = "]"
        inner == SubSeq(text, depth + 1, Len(text) - depth)
        isString == /\ Len(inner) >= 2
                    /\ inner[1] = "\"" /\ inner[Len(inner)] = "\""
                    /\ \A i \in 2..(Len(inner) - 1) : inner[i] # "\""
        isNumber == /\ Len(inner) >= 1
                    /\ \A i \in 1..Len(inner) : IsDigit(inner[i])
                    /\ Len(inner) > 1 => inner[1] # "0"
    IN IF ~closed THEN Throws
       ELSE IF isString THEN Document("string", SubSeq(inner, 2, Len(inner) - 1), depth)
       ELSE IF isNumber THEN Document("number", inner, depth)
       ELSE IF inner = <<>> /\ depth > 0 THEN Document("array", <<>>, depth - 1)
       ELSE Throws

\* The loop of compressData over str, from index i with the run count so far
RECURSIVE CompressFrom(_, _, _)
CompressFrom(str, i, count) ==
    IF i > Len(str) THEN <<>>
    ELSE IF i < Len(str) /\ str[i] = str[i + 1] THEN CompressFrom(str, i + 1, count + 1)
    ELSE (IF count > 1 THEN Decimal(count) \o <<str[i]>> ELSE <<str[i]>>)
             \o CompressFrom(str, i + 1, 1)

\* EnhancedUtils.compressData(data), as the text it returns
compressDataText(d) ==
    LET str == JsonText(d)
        compressed == CompressFrom(str, 1, 1)
    IN IF Len(compressed) < Len(str) THEN compressed ELSE str

\* The loop of decompressData from index i; TypeError when compressed[i + 1]
\* is undefined (undefined.repeat)
TypeError == <<"TypeError">>

RECURSIVE DecompressFrom(_, _)
DecompressFrom(compressed, i) ==
    IF i > Len(compressed) THEN <<>>
    ELSE IF IsDigit(compressed[i])
         THEN IF i = Len(compressed) THEN TypeError
              ELSE LET tail == DecompressFrom(compressed, i + 2)
                   IN IF tail = TypeError THEN TypeError
                      ELSE Repeat(compressed[i + 1], DigitValue(compressed[i])) \o tail
         ELSE LET tail == DecompressFrom(compressed, i + 1)
              IN IF tail = TypeError THEN TypeError ELSE <<compressed[i]>> \o tail

\* EnhancedUtils.decompressData(compressed): the document it returns, or Throws
decompressData(compressed) ==
    IF Parse(compressed) # Throws THEN Parse(compressed)
    ELSE LET decompressed == DecompressFrom(compressed, 1)
         IN IF decompressed = TypeError THEN Throws ELSE Parse(decompressed)

\* !data
Falsy(d) ==
    \/ d = Null
    \/ d.depth = 0 /\ d.kind = "string" /\ d.chars = <<>>
    \/ d.depth = 0 /\ d.kind = "number" /\ d.chars = <<"0">>

\* EnhancedDataManager.load(key, {useCache: false}) of the stored text
loadStored(stored) ==
    LET parsed == IF Parse(stored) = Throws THEN Null ELSE Parse(stored)
    IN IF ~Falsy(parsed) THEN parsed
       ELSE IF decompressData(stored) = Throws THEN Null
       ELSE decompressData(stored)

NoText == [phase |-> "none", doc |-> Null, stored |-> <<>>, read |-> Null]

(***************************************************************************)
(* The state machine                                                       *)
(***************************************************************************)
\* The days the clock passes through: the installation day, the last day of
\* the next month, the first day of the month after
FirstDay == DateKey(2, 29)
Calendar == {FirstDay, DateKey(3, 31), DateKey(4, 1)}
\* The dates given to the handlers that take a date (a day of the weekly view)
InputDates == {DateKey(2, 28), FirstDay}

\* The files importData is given: exports (exportAllData) of a document with
\* one day recorded, and of a document just reset
ImportDocs ==
    { [attendance |-> Put(EmptyObject, DateKey(2, 28), [lunch |-> TRUE, dinner |-> FALSE]),
       summaries |-> EmptyObject, notes |-> EmptyObject, settings |-> DefaultSettings],
      [attendance |-> EmptyObject, summaries |-> EmptyObject,
       settings |-> [theme |-> "dark", notifications |-> FALSE]] }

NoteTexts == {"note"}
SkipReasons == {"No reason provided"}
BulkTypes == {"lunch", "dinner", "both"}

\* The update lists given to batchMarkAttendance
Updates == [type : Meals, date : InputDates]
UpdateLists == UNION {[1..n -> Updates] : n \in 1..MaxBatch}

\* The months and attendance maps the statistics are computed for
StatMonths == {2, 3}
StatDates == {DateKey(3, d) : d \in 1..MaxStatDays} \cup {FirstDay}
MealRecords == [lunch : BOOLEAN, dinner : BOOLEAN]
AttendanceMaps == UNION {[dates -> MealRecords] : dates \in SUBSET StatDates}

NoStats == [none |-> TRUE]

St == [data |-> data, history |-> history, currentIndex |-> currentIndex,
       nextId |-> nextId, ls |-> ls, pendingWrites |-> pendingWrites]

Becomes(s) ==
    /\ data' = s.data
    /\ history' = s.history
    /\ currentIndex' = s.currentIndex
    /\ nextId' = s.nextId
    /\ ls' = s.ls
    /\ pendingWrites' = s.pendingWrites

\* Before the first page load: nothing in localStorage
Blank ==
    [data |-> DefaultData, history |-> <<>>, currentIndex |-> -1, nextId |-> 1,
     ls |-> [attendance |-> NoItem, summaries |-> NoItem, notes |-> NoItem,
             settings |-> NoItem, last_reset |-> NoItem, undo_history |-> NoItem,
             scheduled_notifications |-> NoItem],
     pendingWrites |-> EmptyObject]

\* Nothing is stored and safeSetItem was not called yet
AuxInit ==
    /\ store = [key \in {"messtrack_attendance", "messtrack_notes"} |-> {}]
                   @@ [key \in {"messtrack_settings"} |-> 0]
    /\ sm = [called |-> FALSE, quotaError |-> FALSE, cleanRan |-> FALSE,
             attempts |-> 0, returned |-> FALSE, threw |-> FALSE, warned |-> FALSE]
    /\ fetcher = NoFetch
    /\ sw = [caches |-> [name \in {"messtrack-v2.0.5"} |-> {"/index.html"}],
             pendingPuts |-> {}, last |-> NoEvent]
    /\ bk = [last |-> NoImport]
    /\ called = NoCall
    /\ upload = NoUpload
    /\ bm = NoBackup
    /\ memo = NoMemo
    /\ rle = NoText

\* The notification manager after the first page load, a minute before noon:
\* nothing stored, permission not asked yet, the immediate check made
SideInit ==
    /\ nm = checkScheduledNotifications(NewNotificationManager("default", NoItem, 0),
                                        NowMinute(0))
    /\ reminderTimeouts = <<>>
    /\ clock = 0
    /\ presented = <<>>
    /\ nmDisabled = FALSE
    /\ AuxInit

\* The first page load, on FirstDay
Init ==
    LET s == startApp(Blank, FirstDay)
    IN /\ data = s.data
       /\ history = s.history
       /\ currentIndex = s.currentIndex
       /\ nextId = s.nextId
       /\ ls = s.ls
       /\ pendingWrites = s.pendingWrites
       /\ today = FirstDay
       /\ running = TRUE
       /\ stats = NoStats
       /\ SideInit

MarkAttendance(type) ==
    /\ running
    /\ LET s == markAttendance(St, type, today)
       IN /\ Becomes(s)
          /\ reminderTimeouts' = scheduleReminder(reminderTimeouts, s.data, today, clock)
    /\ UNCHANGED <<today, running, stats, side, aux, rest>>

EnhancedMarkAttendance(type, date) ==
    /\ running
    /\ Becomes(enhancedMarkAttendance(St, type, date, FALSE, FALSE))
    /\ memo' = cacheCleared(memo, MarkResult(St, type, date).success)
    /\ UNCHANGED <<today, running, stats, reminderTimeouts, side, aux, exceptMemo>>

BatchMarkAttendance(updates) ==
    /\ running
    /\ Becomes(batchMarkAttendance(St, updates))
    /\ memo' = cacheCleared(memo, \E i \in 1..Len(updates) :
                                    MarkResult(St, updates[i].type, updates[i].date).success)
    /\ UNCHANGED <<today, running, stats, reminderTimeouts, side, aux, exceptMemo>>

Flush ==
    /\ running
    /\ pendingWrites # EmptyObject
    /\ Becomes(flush(St))
    /\ UNCHANGED <<today, running, stats, reminderTimeouts, side, aux, rest>>

BulkMarkMeal(type, selectedDays) ==
    /\ running
    /\ Becomes(bulkMarkMeal(St, type, selectedDays))
    /\ UNCHANGED <<today, running, stats, reminderTimeouts, side, aux, rest>>

BulkClearMeals(selectedDays) ==
    /\ running
    /\ Becomes(bulkClearMeals(St, selectedDays))
    /\ UNCHANGED <<today, running, stats, reminderTimeouts, side, aux, rest>>

ExportToExcel ==
    /\ running
    /\ Becomes(exportToExcel(St, today))
    /\ UNCHANGED <<today, running, stats, reminderTimeouts, side, aux, rest>>

Undo ==
    /\ running
    /\ Becomes(undo(St))
    /\ UNCHANGED <<today, running, stats, reminderTimeouts, side, aux, rest>>

Redo ==
    /\ running
    /\ Becomes(redo(St))
    /\ UNCHANGED <<today, running, stats, reminderTimeouts, side, aux, rest>>

AddNote(note) ==
    /\ running
    /\ Becomes(addNote(St, note, today))
    /\ UNCHANGED <<today, running, stats, reminderTimeouts, side, aux, rest>>

SaveSkipReason(reason) ==
    /\ running
    /\ Becomes(saveSkipReason(St, reason, today))
    /\ UNCHANGED <<today, running, stats, reminderTimeouts, side, aux, rest>>

ResetAllData ==
    /\ running
    /\ Becomes(resetAllData(St))
    /\ UNCHANGED <<today, running, stats, reminderTimeouts, side, aux, rest>>

ImportData(doc) ==
    /\ running
    /\ Becomes(importData(St, doc))
    /\ UNCHANGED <<today, running, stats, reminderTimeouts, side, aux, rest>>

ToggleTheme ==
    /\ running
    /\ Becomes(toggleTheme(St))
    /\ UNCHANGED <<today, running, stats, reminderTimeouts, side, aux, rest>>

\* The page is loaded again: the constructor runs on what localStorage holds,
\* and throws when an item is not JSON, which leaves no application object
Reload ==
    /\ IF LoadThrows(St)
       THEN /\ running' = FALSE
            /\ Becomes([St EXCEPT !.data = DefaultData, !.history = <<>>,
                                  !.currentIndex = -1, !.pendingWrites = EmptyObject])
            /\ nm' = [NewNotificationManager(nm.permission, NoItem, clock)
                         EXCEPT !.checkIntervals = {}]
            /\ reminderTimeouts' = <<>>
            /\ presented' = presented
       ELSE LET s == startApp(St, today)
                fresh == NewNotificationManager(nm.permission,
                                                ls.scheduled_notifications, clock)
                due == ToPresent(fresh, s.data.attendance, today, NowMinute(clock))
            IN /\ running' = TRUE
               /\ Becomes(s)
               /\ nm' = checkScheduledNotifications(fresh, NowMinute(clock))
               /\ reminderTimeouts' = scheduleReminder(<<>>, s.data, today, clock)
               /\ presented' = Present(presented,
                      {Shown("manager", x, s.data.attendance, today, NowMinute(clock),
                             nmDisabled) : x \in due})
    /\ UNCHANGED <<today, stats, clock, nmDisabled, aux, rest>>

\* The notification toggle of the settings page is changed; outcome is what
\* Notification.requestPermission() resolves to when it is switched on
ToggleNotifications(outcome) ==
    /\ running
    /\ IF ~data.settings.notifications
       THEN LET granted == outcome = "granted"
                n == enable(nm, outcome, data.settings, clock)
                s == saveData([St EXCEPT !.data.settings.notifications = granted])
            IN /\ nm' = n
               /\ Becomes(IF granted THEN saveScheduledNotifications(s, n) ELSE s)
               /\ nmDisabled' = (IF granted THEN FALSE ELSE nmDisabled)
       ELSE LET n == disable(nm)
                s == saveData([St EXCEPT !.data.settings.notifications = FALSE])
            IN /\ nm' = n
               /\ Becomes(saveScheduledNotifications(s, n))
               /\ nmDisabled' = TRUE
    /\ UNCHANGED <<today, running, stats, reminderTimeouts, clock, presented, aux, rest>>

\* The lunch or dinner time of the settings page is changed
SetMealTime(key, text) ==
    /\ running
    /\ LET s == saveData([St EXCEPT !.data.settings[key] = text])
           n == IF s.data.settings.notifications
                THEN updateNotificationTimes(nm, s.data.settings, clock) ELSE nm
       IN /\ nm' = n
          /\ Becomes(IF n # nm THEN saveScheduledNotifications(s, n) ELSE s)
    /\ UNCHANGED <<today, running, stats, reminderTimeouts, clock, presented, nmDisabled, aux, rest>>

\* An interval timer of the notification manager fires
Tick(timer) ==
    /\ timer \in nm.checkIntervals
    /\ timer.due = clock
    /\ LET minute == NowMinute(clock)
           rearmed == (nm.checkIntervals \ {timer})
                        \cup {[timer EXCEPT !.due = @ + timer.period]}
       IN IF timer.kind = "weekly"
          THEN /\ nm' = [nm EXCEPT !.checkIntervals = rearmed]
               /\ presented' = presented
          ELSE /\ nm' = [checkScheduledNotifications(nm, minute)
                            EXCEPT !.checkIntervals = rearmed]
               /\ presented' = Present(presented,
                      {Shown("manager", x, data.attendance, today, minute, nmDisabled) :
                          x \in ToPresent(nm, data.attendance, today, minute)})
    /\ UNCHANGED <<data, history, currentIndex, nextId, ls, pendingWrites, today, running,
                   stats, reminderTimeouts, clock, nmDisabled, aux, rest>>

\* A timeout set by scheduleReminder fires: the reminder is shown when the
\* meal is still not marked and the browser permission is granted
FireReminderTimeout(i) ==
    /\ i \in 1..Len(reminderTimeouts)
    /\ reminderTimeouts[i].due = clock
    /\ reminderTimeouts' = SubSeq(reminderTimeouts, 1, i - 1)
                             \o SubSeq(reminderTimeouts, i + 1, Len(reminderTimeouts))
    /\ LET mealType == reminderTimeouts[i].mealType
           reminder == [id |-> <<mealType, "before", 30>>, mealType |-> mealType]
       IN presented' =
            IF ~IsMarked(data.attendance, today, mealType) /\ nm.permission = "granted"
            THEN Present(presented, {Shown("app", reminder, data.attendance, today,
                                           NowMinute(clock), nmDisabled)})
            ELSE presented
    /\ UNCHANGED <<data, history, currentIndex, nextId, ls, pendingWrites, today, running,
                   stats, nm, clock, nmDisabled, aux, rest>>

\* Half a minute passes, once every timer due by now has fired
AdvanceTime ==
    /\ clock < MaxHalfMinutes
    /\ \A timer \in nm.checkIntervals : timer.due > clock
    /\ \A i \in 1..Len(reminderTimeouts) : reminderTimeouts[i].due # clock
    /\ clock' = clock + 1
    /\ UNCHANGED <<data, history, currentIndex, nextId, ls, pendingWrites, today, running,
                   stats, nm, reminderTimeouts, presented, nmDisabled, aux, rest>>

\* Time passes
AdvanceClock ==
    /\ \E d \in Calendar : d > today /\ today' = d
    /\ UNCHANGED <<data, history, currentIndex, nextId, ls, pendingWrites, running, stats,
                   reminderTimeouts, side, aux, rest>>

CalculateMonthlyStats(monthKey) ==
    /\ running
    /\ stats' = calculateMonthlyStats(data.attendance, monthKey)
    /\ UNCHANGED <<data, history, currentIndex, nextId, ls, pendingWrites, today, running,
                   reminderTimeouts, side, aux, rest>>

\* undoManager.clearHistory() called on its own
ClearHistory ==
    /\ running
    /\ Becomes(clearHistory(St))
    /\ UNCHANGED <<today, running, stats, reminderTimeouts, side, aux, rest>>

\* undoManager.compressHistory()
CompressHistory ==
    /\ running
    /\ Becomes(compressHistory(St))
    /\ UNCHANGED <<today, running, stats, reminderTimeouts, side, aux, rest>>

\* enhancedAttendance.calculateStats(monthKey) is called
CalculateStats(monthKey) ==
    /\ running
    /\ memo' = calculateStats(memo, data.attendance, monthKey)
    /\ UNCHANGED <<app, aux, exceptMemo>>

\* enhancedAttendance.getAttendanceRange(startDate, endDate) is called
GetAttendanceRange(startDate, endDate) ==
    /\ running
    /\ memo' = getAttendanceRange(memo, data.attendance, startDate, endDate)
    /\ UNCHANGED <<app, aux, exceptMemo>>

\* Date.now() moves on by the ttl of the memo
MemoTimePasses ==
    /\ memo.now < MaxHalfMinutes
    /\ memo' = [memo EXCEPT !.now = @ + 1]
    /\ UNCHANGED <<app, aux, exceptMemo>>

\* EnhancedDataManager.flush writes document d with compress: true
CompressData(d) ==
    /\ rle' = [phase |-> "stored", doc |-> d, stored |-> compressDataText(d), read |-> Null]
    /\ UNCHANGED <<app, aux, exceptRle>>

\* EnhancedUtils.decompressData(stored)
DecompressData ==
    /\ rle.phase = "stored"
    /\ rle' = [rle EXCEPT !.phase = "decompressed", !.read = decompressData(rle.stored)]
    /\ UNCHANGED <<app, aux, exceptRle>>

\* EnhancedDataManager.load(key) of what flush stored
LoadStored ==
    /\ rle.phase = "stored"
    /\ rle' = [rle EXCEPT !.phase = "loaded", !.read = loadStored(rle.stored)]
    /\ UNCHANGED <<app, aux, exceptRle>>

(***************************************************************************)
(* Spec: the document over page loads and month changes                    *)
(***************************************************************************)
Next ==
    \/ nextId <= MaxEdits /\ \E type \in Meals : MarkAttendance(type)
    \/ Undo
    \/ Redo
    \/ \E note \in NoteTexts : AddNote(note)
    \/ \E reason \in SkipReasons : SaveSkipReason(reason)
    \/ ResetAllData
    \/ \E doc \in ImportDocs : ImportData(doc)
    \/ Reload
    \/ AdvanceClock

Spec == Init /\ [][Next]_vars

(***************************************************************************)
(* SpecUndo: marking, bulk marking and clearing, batches, undo and redo    *)
(***************************************************************************)
NextUndo ==
    \/ nextId <= MaxEdits /\ \E type \in Meals : MarkAttendance(type)
    \/ nextId <= MaxEdits /\ \E updates \in UpdateLists : BatchMarkAttendance(updates)
    \/ \E type \in BulkTypes, days \in SUBSET InputDates : BulkMarkMeal(type, days)
    \/ \E days \in SUBSET InputDates : BulkClearMeals(days)
    \/ Undo
    \/ Redo

SpecUndo == Init /\ [][NextUndo]_vars

(***************************************************************************)
(* SpecRecord: the handlers that record an action, from the empty log,     *)
(* and the batched writer                                                  *)
(***************************************************************************)
NextRecord ==
    \/ nextId <= MaxRecorded /\ \E type \in Meals : MarkAttendance(type)
    \/ nextId <= MaxRecorded
         /\ \E type \in Meals, date \in InputDates : EnhancedMarkAttendance(type, date)
    \/ nextId <= MaxRecorded /\ \E updates \in UpdateLists : BatchMarkAttendance(updates)
    \/ nextId <= MaxRecorded /\ ExportToExcel

NextRecordFlush ==
    \/ NextRecord
    \/ Flush

SpecRecord == Init /\ [][NextRecordFlush]_vars

(***************************************************************************)
(* SpecLog: the handlers that record an action, bulk marking of today      *)
(* (which records none), undo and redo                                     *)
(***************************************************************************)
NextLog ==
    \/ nextId <= MaxRecorded /\ \E type \in Meals : MarkAttendance(type)
    \/ nextId <= MaxRecorded
         /\ \E type \in Meals : EnhancedMarkAttendance(type, DateKey(2, 28))
    \/ nextId <= MaxRecorded
         /\ \E type \in Meals : BatchMarkAttendance(<<[type |-> type, date |-> today]>>)
    \/ nextId <= MaxRecorded /\ ExportToExcel
    \/ \E type \in BulkTypes : BulkMarkMeal(type, {today})
    \/ Undo
    \/ Redo

SpecLog == Init /\ [][NextLog]_vars

(***************************************************************************)
(* SpecCap: one meal marked over and over, past the capacity of the log;   *)
(* undo and redo are explored once the log is nearly full                  *)
(***************************************************************************)
NextCap ==
    \/ nextId <= MaxCapRecorded /\ MarkAttendance("lunch")
    \/ nextId >= maxHistorySize - 1 /\ Undo
    \/ Redo

SpecCap == Init /\ [][NextCap]_vars

(***************************************************************************)
(* SpecStats: the statistics of every attendance map over StatDates        *)
(***************************************************************************)
InitStats ==
    /\ \E attendance \in AttendanceMaps :
          data = [DefaultData EXCEPT !.attendance = attendance]
    /\ history = <<>>
    /\ currentIndex = -1
    /\ nextId = 1
    /\ ls = Blank.ls
    /\ pendingWrites = EmptyObject
    /\ today = FirstDay
    /\ running = TRUE
    /\ stats = NoStats
    /\ SideInit

NextStats == \E monthKey \in StatMonths : CalculateMonthlyStats(monthKey)

SpecStats == InitStats /\ [][NextStats]_vars

(***************************************************************************)
(* SpecSync: every handler that mutates the document in place, and the     *)
(* batched writer                                                          *)
(***************************************************************************)
NextSync ==
    \/ nextId <= MaxEdits /\ \E type \in Meals : MarkAttendance(type)
    \/ nextId <= MaxEdits
         /\ \E type \in Meals : EnhancedMarkAttendance(type, DateKey(2, 28))
    \/ nextId <= MaxEdits
         /\ \E type \in Meals : BatchMarkAttendance(<<[type |-> type, date |-> today]>>)
    \/ Flush
    \/ \E type \in BulkTypes : BulkMarkMeal(type, {today})
    \/ BulkClearMeals({today})
    \/ \E note \in NoteTexts : AddNote(note)
    \/ \E reason \in SkipReasons : SaveSkipReason(reason)
    \/ ToggleTheme
    \/ Undo
    \/ Redo

SpecSync == Init /\ [][NextSync]_vars

(***************************************************************************)
(* SpecNotify: the notification toggle, the meal times, marking, and the   *)
(* timers, from a minute before noon                                       *)
(***************************************************************************)
PermissionOutcomes ==
    IF nm.permission = "default" THEN {"granted", "denied", "default"}
    ELSE {nm.permission}

MealTimeInputs == {"12:00", "12:30"}

NextNotify ==
    \/ nextId <= MaxMarked /\ \E type \in Meals : MarkAttendance(type)
    \/ \E outcome \in PermissionOutcomes : ToggleNotifications(outcome)
    \/ \E key \in {"lunchTime", "dinnerTime"}, text \in MealTimeInputs :
          SetMealTime(key, text)
    \/ \E timer \in nm.checkIntervals : Tick(timer)
    \/ \E i \in 1..Len(reminderTimeouts) : FireReminderTimeout(i)
    \/ AdvanceTime

SpecNotify == Init /\ [][NextNotify]_vars

(***************************************************************************)
(* SpecStore: records are stored day by day and a value is written with    *)
(* safeSetItem.                                                            *)
(***************************************************************************)
\* MessTrack.saveData writes the attendance and the notes items directly; one
\* more dated record is stored when it fits
StoreRecord(key, date) ==
    LET r == setItem(store, key, store[key] \cup {date}, "QuotaExceededError")
    IN /\ date \notin store[key]
       /\ r.ok
       /\ store' = r.store
       /\ UNCHANGED <<app, sm, fetcher, sw, bk, rest>>

SafeSetItem(length, errorName, messTrack) ==
    LET r == safeSetItem(store, "messtrack_settings", length, errorName, messTrack)
    IN /\ store' = r.store
       /\ sm' = r.sm
       /\ UNCHANGED <<app, fetcher, sw, bk, rest>>

NextStore ==
    \/ \E key \in {"messtrack_attendance", "messtrack_notes"}, date \in StoreDates :
          StoreRecord(key, date)
    \/ \E length \in 0..MaxLength, errorName \in ErrorNames, messTrack \in BOOLEAN :
          SafeSetItem(length, errorName, messTrack)

SpecStore == Init /\ [][NextStore]_vars

(***************************************************************************)
(* SpecFetch: calls of fetchWithRetry, one at a time.  A fetch settles     *)
(* (after 15 s it is aborted) and a delay elapses, hence the fairness.     *)
(***************************************************************************)
CallFetchWithRetry(maxRetries, baseDelay) ==
    /\ fetcher.phase \in {"idle", "returned", "threw"}
    /\ fetcher' = [NoFetch EXCEPT !.phase = "fetching", !.maxRetries = maxRetries,
                                  !.baseDelay = baseDelay]
    /\ UNCHANGED <<app, store, sm, sw, bk, rest>>

FetchSettles(outcome) ==
    /\ fetcher.phase = "fetching"
    /\ fetcher' = fetchWithRetry(fetcher, outcome)
    /\ UNCHANGED <<app, store, sm, sw, bk, rest>>

DelayElapses ==
    /\ fetcher.phase = "waiting"
    /\ fetcher' = [fetcher EXCEPT !.phase = "fetching", !.retryCount = @ + 1]
    /\ UNCHANGED <<app, store, sm, sw, bk, rest>>

NextFetch ==
    \/ \E maxRetries \in 0..MaxRetries, baseDelay \in BaseDelays :
          CallFetchWithRetry(maxRetries, baseDelay)
    \/ \E outcome \in FetchOutcomes : FetchSettles(outcome)
    \/ DelayElapses

SpecFetch ==
    /\ Init
    /\ [][NextFetch]_vars
    /\ WF_vars(\E outcome \in FetchOutcomes : FetchSettles(outcome))
    /\ WF_vars(DelayElapses)

(***************************************************************************)
(* SpecWorker: the service worker is installed and activated, and answers  *)
(* the fetch events of the page.                                           *)
(***************************************************************************)
Install(added) ==
    /\ sw' = onInstall(sw, added)
    /\ UNCHANGED <<app, store, sm, fetcher, bk, rest>>

Activate ==
    /\ CACHE_NAME \in DOMAIN sw.caches
    /\ sw' = onActivate(sw)
    /\ UNCHANGED <<app, store, sm, fetcher, bk, rest>>

FetchEvent(method, url, outcome) ==
    /\ sw' = onFetch(sw, method, url, outcome)
    /\ UNCHANGED <<app, store, sm, fetcher, bk, rest>>

\* The cache.put of an answered request is made
CachePut(url) ==
    /\ url \in sw.pendingPuts
    /\ sw' = [sw EXCEPT !.caches = CachePutAll(@, {url}), !.pendingPuts = @ \ {url}]
    /\ UNCHANGED <<app, store, sm, fetcher, bk, rest>>

NextWorker ==
    \/ \E added \in BOOLEAN : Install(added)
    \/ Activate
    \/ \E method \in RequestMethods, url \in RequestUrls, outcome \in NetworkOutcomes :
          FetchEvent(method, url, outcome)
    \/ \E url \in RequestUrls : CachePut(url)

SpecWorker == Init /\ [][NextWorker]_vars

(***************************************************************************)
(* SpecImport: the day is marked and files are imported by each of the     *)
(* three import paths.                                                     *)
(***************************************************************************)
\* The files chosen: a backup of BackupManager, an export of MessTrack, a
\* bare document, and a file whose settings are not valid
ImportFiles ==
    {[version |-> "2.0", data |-> doc] : doc \in ImportDocs}
        \cup {[data |-> doc] : doc \in ImportDocs}
        \cup ImportDocs
        \cup {[data |-> [settings |-> [theme |-> "blue"]]]}

ConflictStrategies == {"merge", "last-write-wins"}

\* MessTrack.importData, the confirm accepted
ImportFile(doc) ==
    /\ running
    /\ Becomes(importData(St, doc))
    /\ bk' = [bk EXCEPT !.last = [path |-> "MessTrack.importData", replaced |-> TRUE,
                                  before |-> BackupOf(data), created |-> {}]]
    /\ UNCHANGED <<today, running, stats, reminderTimeouts, side, store, sm, fetcher, sw, rest>>

ImportBackup(file, confirmed) ==
    /\ running
    /\ Becomes(importBackup(St, file, confirmed))
    /\ bk' = [bk EXCEPT !.last = [path |-> "BackupManager.importBackup",
                                  replaced |-> /\ confirmed
                                               /\ {"data", "version"} \subseteq DOMAIN file,
                                  before |-> BackupOf(data), created |-> {}]]
    /\ UNCHANGED <<today, running, stats, reminderTimeouts, side, store, sm, fetcher, sw, rest>>

EnhancedImportData(file, backup, strategy) ==
    /\ running
    /\ Becomes(enhancedImportData(St, file, strategy))
    /\ LET created == IF backup THEN createBackup({}, data) ELSE {}
       IN bk' = [last |-> [path |-> "EnhancedImportManager.importData",
                           replaced |-> validateImportData(file),
                           before |-> BackupOf(data), created |-> created]]
    /\ UNCHANGED <<today, running, stats, reminderTimeouts, side, store, sm, fetcher, sw, rest>>

NextImport ==
    \/ \E type \in Meals : nextId <= MaxMarked /\ MarkAttendance(type)
    \/ \E doc \in ImportDocs : ImportFile(doc)
    \/ \E file \in ImportFiles, confirmed \in BOOLEAN : ImportBackup(file, confirmed)
    \/ \E file \in ImportFiles, backup \in BOOLEAN, strategy \in ConflictStrategies :
          EnhancedImportData(file, backup, strategy)

SpecImport == Init /\ [][NextImport]_vars

(***************************************************************************)
(* SpecValidate: the two markAttendance handlers called with any meal type *)
(* and any date text                                                       *)
(***************************************************************************)
MealTypeInputs == Meals \cup {"snack"}
DateInputs == InputDates \cup {BadDate}

Found == [attendance |-> data.attendance, history |-> history,
          currentIndex |-> currentIndex]

MarkCall(type) ==
    /\ running
    /\ LET s == markAttendance(St, type, today)
       IN /\ Becomes(s)
          /\ reminderTimeouts' = IF type \in Meals
                                 THEN scheduleReminder(reminderTimeouts, s.data, today, clock)
                                 ELSE reminderTimeouts
    /\ called' = [handler |-> "MessTrack", type |-> type, date |-> today,
                  reported |-> markAttendanceReport(type), before |-> Found]
    /\ UNCHANGED <<today, running, stats, side, aux, exceptCalled>>

EnhancedMarkCall(type, date) ==
    /\ running
    /\ Becomes(enhancedMarkAttendance(St, type, date, FALSE, FALSE))
    /\ called' = [handler |-> "EnhancedAttendanceManager", type |-> type, date |-> date,
                  reported |-> enhancedMarkAttendanceReport(St, type, date),
                  before |-> Found]
    /\ memo' = cacheCleared(memo, MarkResult(St, type, date).success)
    /\ UNCHANGED <<today, running, stats, reminderTimeouts, side, aux, upload, bm, rle>>

NextValidate ==
    \/ \E type \in MealTypeInputs :
          (nextId <= MaxRecorded \/ type \notin Meals) /\ MarkCall(type)
    \/ \E type \in MealTypeInputs, date \in DateInputs :
          /\ nextId <= MaxRecorded \/ type \notin Meals \/ ~IsDateText(date)
          /\ EnhancedMarkCall(type, date)

SpecValidate == Init /\ [][NextValidate]_vars

(***************************************************************************)
(* SpecUpload: calls of uploadToGitHub, one at a time                      *)
(***************************************************************************)
CallUploadToGitHub(retries, configured) ==
    /\ upload.phase \in {"idle", "done"}
    /\ upload' = StartUpload(retries, configured)
    /\ UNCHANGED <<app, aux, exceptUpload>>

UploadAttempt(outcome) ==
    /\ upload.phase = "attempting"
    /\ upload' = uploadToGitHub(upload, outcome)
    /\ UNCHANGED <<app, aux, exceptUpload>>

NextUpload ==
    \/ \E retries \in 0..MaxUploadRetries, configured \in BOOLEAN :
          CallUploadToGitHub(retries, configured)
    \/ \E outcome \in UploadOutcomes : UploadAttempt(outcome)

SpecUpload == Init /\ [][NextUpload]_vars

(***************************************************************************)
(* SpecBackup: the backup reminder over a few days                         *)
(***************************************************************************)
CheckBackupStatus ==
    /\ bm' = checkBackupStatus(bm)
    /\ UNCHANGED <<app, aux, exceptBm>>

SnoozeReminder ==
    /\ bm.banner
    /\ bm' = snoozeReminder(bm)
    /\ UNCHANGED <<app, aux, exceptBm>>

CreateBackup ==
    /\ bm' = createBackupNow(bm)
    /\ UNCHANGED <<app, aux, exceptBm>>

SetBackupFrequency(days) ==
    /\ bm' = [bm EXCEPT !.backupFrequency = days]
    /\ UNCHANGED <<app, aux, exceptBm>>

HalfDayPasses ==
    /\ bm.now < MaxHalfDays
    /\ bm' = [bm EXCEPT !.now = @ + 1]
    /\ UNCHANGED <<app, aux, exceptBm>>

NextBackup ==
    \/ CheckBackupStatus
    \/ SnoozeReminder
    \/ CreateBackup
    \/ \E days \in BackupFrequencies : SetBackupFrequency(days)
    \/ HalfDayPasses

SpecBackup == Init /\ [][NextBackup]_vars

(***************************************************************************)
(* SpecCursor: every operation of the undo manager that moves the cursor,  *)
(* over page reloads                                                       *)
(***************************************************************************)
NextCursor ==
    \/ nextId <= MaxRecorded /\ \E type \in Meals : MarkAttendance(type)
    \/ nextId <= MaxRecorded
         /\ \E type \in Meals : EnhancedMarkAttendance(type, DateKey(2, 28))
    \/ Undo
    \/ Redo
    \/ ClearHistory
    \/ CompressHistory
    \/ Reload

SpecCursor == Init /\ [][NextCursor]_vars

(***************************************************************************)
(* SpecMemo: meals are marked, undone and redone, and the statistics and   *)
(* the ranges are queried in between.                                      *)
(***************************************************************************)
NextMemo ==
    \/ nextId <= MaxMarked /\ \E type \in Meals : MarkAttendance(type)
    \/ nextId <= MaxMarked
         /\ \E type \in Meals : EnhancedMarkAttendance(type, DateKey(2, 28))
    \/ Undo
    \/ Redo
    \/ \E monthKey \in StatMonths : CalculateStats(monthKey)
    \/ \E startDate \in InputDates, endDate \in InputDates :
          startDate <= endDate /\ GetAttendanceRange(startDate, endDate)
    \/ MemoTimePasses

SpecMemo == Init /\ [][NextMemo]_vars

(***************************************************************************)
(* SpecText: documents are compressed and stored, and read back            *)
(***************************************************************************)
\* Strings of letters and digits, numbers, and long runs of one character
StringTexts == UNION {[1..n -> {"a", "1"}] : n \in 0..MaxChars}
NumberTexts == {digits \in UNION {[1..n -> {"0", "1", "7"}] : n \in 1..MaxChars} :
                   Len(digits) > 1 => digits[1] # "0"}
Documents ==
    {Document("string", chars, depth) : chars \in StringTexts, depth \in 0..MaxDepth}
    \cup {Document("number", digits, depth) : digits \in NumberTexts, depth \in 0..MaxDepth}
    \cup {Document("string", Repeat("a", n), 0) : n \in 9..MaxRun}
    \cup {Document("string", <<"a">>, n) : n \in 9..MaxRun}

NextText ==
    \/ \E d \in Documents : CompressData(d)
    \/ DecompressData
    \/ LoadStored

SpecText == Init /\ [][NextText]_vars

(***************************************************************************)
(* Properties of the statistics (SpecStats)                                *)
(***************************************************************************)
\* The recorded dates of the month the statistics were computed for
StatRecorded == {d \in DOMAIN data.attendance : MonthOf(d) = stats.monthKey}

Attended(d) == data.attendance[d].lunch \/ data.attendance[d].dinner

\* The recorded dates that have fewer than r recorded dates after them
Latest(r) == {d \in StatRecorded : Cardinality({e \in StatRecorded : e > d}) < r}

\* The recorded dates from a to b
Between(a, b) == {d \in StatRecorded : a <= d /\ d <= b}

\* r is the length of the run of attended dates that ends at the latest date
IsTrailingRun(r) ==
    /\ \A d \in Latest(r) : Attended(d)
    /\ \/ r = Cardinality(StatRecorded)
       \/ \E d \in Latest(r + 1) \ Latest(r) : ~Attended(d)

\* The lengths of the runs of consecutive recorded dates that are all attended
RunLengths ==
    {0} \cup {Cardinality(Between(a, b)) :
                 <<a, b>> \in {p \in StatRecorded \X StatRecorded :
                                  \A d \in Between(p[1], p[2]) : Attended(d)}}

\* C4: calculateCurrentStreak returns the number R of latest recorded dates of
\* the month that all have lunch or dinner, the date just before them (if
\* any) having neither; so it returns 0 when the latest date has neither meal
C4_CurrentStreakIsTrailingRun ==
    stats # NoStats =>
        /\ stats.currentStreak \in 0..Cardinality(StatRecorded)
        /\ IsTrailingRun(stats.currentStreak)
        /\ (\E d \in Latest(1) : ~Attended(d)) => stats.currentStreak = 0

\* A streak of two dates that stops at an earlier date without a meal
C4_Witness ==
    /\ stats # NoStats
    /\ stats.currentStreak = 2
    /\ stats.totalDays > 2

\* C5: longestStreak is at least currentStreak, and is the greatest length of
\* a run of consecutive attended dates in the sorted dates of the month
C5_LongestStreakIsMaxRun ==
    stats # NoStats =>
        /\ stats.longestStreak >= stats.currentStreak
        /\ stats.longestStreak \in RunLengths
        /\ \A n \in RunLengths : n <= stats.longestStreak

\* The longest run is not the one at the end of the month
C5_Witness ==
    /\ stats # NoStats
    /\ stats.currentStreak = 1
    /\ stats.longestStreak = 2

\* What C6 says of the counts: only the dates of the month are counted, the
\* four kinds of day add up to totalDays, and each meal's count is made of
\* the days with both meals and the days with that meal only
CountsAgree ==
    /\ stats.totalDays = Cardinality(StatRecorded)
    /\ stats.lunchCount = Cardinality({d \in StatRecorded : data.attendance[d].lunch})
    /\ stats.dinnerCount = Cardinality({d \in StatRecorded : data.attendance[d].dinner})
    /\ stats.bothMealsCount + stats.onlyLunchCount + stats.onlyDinnerCount
         + stats.skippedBothCount = stats.totalDays
    /\ stats.lunchCount = stats.bothMealsCount + stats.onlyLunchCount
    /\ stats.dinnerCount = stats.bothMealsCount + stats.onlyDinnerCount

\* C6 as the specification states it: the counts agree and attendancePercentage
\* (in tenths) is exactly (lunchCount + dinnerCount) / (2 * totalDays) * 100,
\* and 0 when totalDays is 0
C6_PercentageExact ==
    stats # NoStats =>
        /\ CountsAgree
        /\ IF stats.totalDays = 0 THEN stats.attendancePercentage = 0
           ELSE stats.attendancePercentage * (2 * stats.totalDays)
                  = 1000 * (stats.lunchCount + stats.dinnerCount)

\* C6, amended: the counts agree and attendancePercentage is
\* (lunchCount + dinnerCount) / (2 * totalDays) * 100 rounded to one decimal
\* place (the nearest tenth, the upper one on a tie), and 0 when totalDays is 0
C6_PercentageRounded ==
    stats # NoStats =>
        /\ CountsAgree
        /\ IF stats.totalDays = 0 THEN stats.attendancePercentage = 0
           ELSE LET exact == 1000 * (stats.lunchCount + stats.dinnerCount)
                    possible == 2 * stats.totalDays
                    scaled == stats.attendancePercentage * possible
                IN /\ 2 * exact - possible < 2 * scaled
                   /\ 2 * scaled <= 2 * exact + possible

\* Three days of the month with one meal between them (16.7 percent), and a
\* recorded date of another month that is not counted
C6_Witness ==
    /\ stats # NoStats
    /\ stats.totalDays = 3
    /\ stats.lunchCount + stats.dinnerCount = 1
    /\ stats.attendancePercentage = 167
    /\ Cardinality(DOMAIN data.attendance) > 3

\* The lengths of the runs of calendar days, each recorded with a meal, and
\* of those that end at the latest recorded date
CalendarRuns ==
    {0} \cup {p[2] - p[1] + 1 :
                 p \in {q \in StatRecorded \X StatRecorded :
                           /\ q[1] <= q[2]
                           /\ \A day \in q[1]..q[2] :
                                 day \in StatRecorded /\ Attended(day)}}

TrailingCalendarRuns ==
    {0} \cup {p[2] - p[1] + 1 :
                 p \in {q \in StatRecorded \X Latest(1) :
                           /\ q[1] <= q[2]
                           /\ \A day \in q[1]..q[2] :
                                 day \in StatRecorded /\ Attended(day)}}

\* C17: a streak counts calendar-consecutive dates only: a calendar day
\* without a record between two attended recorded dates ends the run, so
\* currentStreak is the longest run of calendar days ending at the latest
\* recorded date and longestStreak the longest run of calendar days
C17_GapEndsStreak ==
    stats # NoStats =>
        /\ stats.currentStreak \in TrailingCalendarRuns
        /\ \A n \in TrailingCalendarRuns : n <= stats.currentStreak
        /\ stats.longestStreak \in CalendarRuns
        /\ \A n \in CalendarRuns : n <= stats.longestStreak

(***************************************************************************)
(* Properties of the undo log                                              *)
(***************************************************************************)
RECURSIVE UndoTimes(_, _)
UndoTimes(s, k) == IF k = 0 THEN s ELSE UndoTimes(undo(s), k - 1)

RECURSIVE RedoTimes(_, _)
RedoTimes(s, k) == IF k = 0 THEN s ELSE RedoTimes(redo(s), k - 1)

\* C1 (SpecRecord): after N recordAction calls on an empty history, K <= N
\* undo() calls followed by K redo() calls leave the attendance and notes, the
\* history array and currentIndex as they were right after the N calls
C1_UndoRedoRestores ==
    \A k \in 0..Len(history) :
        LET r == RedoTimes(UndoTimes(St, k), k)
        IN /\ r.data.attendance = data.attendance
           /\ r.data.notes = data.notes
           /\ r.history = history
           /\ r.currentIndex = currentIndex

\* The states a handler that records an action can lead to from s
Recordings(s) ==
    {r \in {markAttendance(s, type, today) : type \in Meals}
             \cup {enhancedMarkAttendance(s, u.type, u.date, FALSE, FALSE) : u \in Updates}
             \cup {batchMarkAttendance(s, updates) : updates \in UpdateLists}
             \cup {exportToExcel(s, today)} :
        r.nextId = s.nextId + 1}

Ids(log) == {log[i].id : i \in 1..Len(log)}

\* C2 (SpecLog): after M >= 1 undo() calls, a recordAction() removes the M
\* undone entries, leaves the applied ones, puts the new action last with
\* currentIndex on it, and makes redo unavailable: canRedo() is false and
\* redo() changes neither the history, nor the cursor, nor the data
C2_RecordDiscardsUndone ==
    canRedo(St) =>
        \A r \in Recordings(St) :
            /\ Len(r.history) = currentIndex + 2
            /\ \A i \in 1..(currentIndex + 1) : r.history[i] = history[i]
            /\ \A i \in (currentIndex + 2)..Len(history) : history[i].id \notin Ids(r.history)
            /\ r.history[Len(r.history)].id = nextId
            /\ r.currentIndex = Len(r.history) - 1
            /\ ~canRedo(r)
            /\ redo(r) = r

\* An action was recorded after an undo: an id is missing from the log, whose
\* last entry is the newest action, with the cursor on it
C2_Witness ==
    /\ history # <<>>
    /\ history[Len(history)].id = nextId - 1
    /\ Len(history) < nextId - 1
    /\ currentIndex = Len(history) - 1
    /\ ~canRedo(St)

\* The flag of a meal on a date: false while the date has no record
Flag(s, date, type) ==
    IF Get(s.data.attendance, date) = UNDEF THEN FALSE
    ELSE s.data.attendance[date][type]

\* The types of the last two entries of the log
LastTwoTypes(s) ==
    <<s.history[Len(s.history) - 1].type, s.history[Len(s.history)].type>>

\* C3 as the specification states it (SpecLog): markAttendance called twice
\* for a meal of today puts the flag back, records a mark_attendance and then
\* an unmark_attendance; one undo() then gives true, a second one false
C3_ToggleTwiceMarkThenUnmark ==
    \A type \in Meals :
        LET s1 == markAttendance(St, type, today)
            s2 == markAttendance(s1, type, today)
            u1 == undo(s2)
            u2 == undo(u1)
        IN /\ Flag(s2, today, type) = Flag(St, today, type)
           /\ Len(s2.history) >= 2
           /\ Ids(s2.history) \ Ids(history) = {nextId, nextId + 1}
           /\ LastTwoTypes(s2) = <<"mark_attendance", "unmark_attendance">>
           /\ Flag(u1, today, type) = TRUE
           /\ Flag(u2, today, type) = FALSE

\* C3, amended: markAttendance called twice for a meal of today puts the flag
\* back and records two actions: mark_attendance then unmark_attendance when
\* the flag was false, unmark_attendance then mark_attendance when it was
\* true; one undo() then gives the opposite of the original flag (the value
\* after the first call), a second one the original flag
C3_ToggleTwiceRecordsBoth ==
    \A type \in Meals :
        LET before == Flag(St, today, type)
            s1 == markAttendance(St, type, today)
            s2 == markAttendance(s1, type, today)
            u1 == undo(s2)
            u2 == undo(u1)
        IN /\ Flag(s1, today, type) = ~before
           /\ Flag(s2, today, type) = before
           /\ Len(s2.history) >= 2
           /\ Ids(s2.history) \ Ids(history) = {nextId, nextId + 1}
           /\ LastTwoTypes(s2) = IF before
                                 THEN <<"unmark_attendance", "mark_attendance">>
                                 ELSE <<"mark_attendance", "unmark_attendance">>
           /\ Flag(u1, today, type) = ~before
           /\ Flag(u2, today, type) = before

\* A meal that was set is toggled twice: unmark_attendance then
\* mark_attendance on the same meal of today, the flag set again
C3_Witness ==
    /\ Len(history) = 2
    /\ currentIndex = 1
    /\ LastTwoTypes(St) = <<"unmark_attendance", "mark_attendance">>
    /\ history[1].data.date = today
    /\ history[2].data.date = today
    /\ history[1].data.mealType = history[2].data.mealType
    /\ Flag(St, today, history[2].data.mealType)

\* C7 (SpecCap): the history never holds more than maxHistorySize actions;
\* a recordAction that would exceed it removes the oldest action, keeps the
\* others in order, puts the new action last and leaves currentIndex on it
C7_HistoryBounded ==
    /\ Len(history) <= maxHistorySize
    /\ currentIndex = maxHistorySize - 1 =>
          LET r == markAttendance(St, "lunch", today)
          IN /\ Len(r.history) = maxHistorySize
             /\ history[1].id \notin Ids(r.history)
             /\ \A i \in 1..(maxHistorySize - 1) : r.history[i] = history[i + 1]
             /\ r.history[maxHistorySize].id = nextId
             /\ r.currentIndex = maxHistorySize - 1

\* The log is full, its oldest action is gone, the newest is last with the
\* cursor on it
C7_Witness ==
    /\ Len(history) = maxHistorySize
    /\ history[1].id > 1
    /\ history[maxHistorySize].id = nextId - 1
    /\ currentIndex = maxHistorySize - 1

\* C8 (SpecUndo): every entry of data.attendance is a record with both
\* lunch and dinner booleans, after single marks, bulk marking and clearing,
\* batchMarkAttendance, undo and redo (of bulk_edit actions too)
C8_AttendanceWellFormed ==
    \A date \in DOMAIN data.attendance : data.attendance[date] \in MealRecords

\* C15 (SpecLog): undo() with the cursor at -1 (empty log, or everything
\* undone) returns false and leaves the history, the cursor and the data as
\* they are; so does redo() with the cursor on the last entry
C15_NothingToUndoOrRedo ==
    /\ currentIndex = -1 =>
          /\ ~undoReturns(St)
          /\ undo(St).history = history
          /\ undo(St).currentIndex = currentIndex
          /\ undo(St).data = data
    /\ currentIndex = Len(history) - 1 =>
          /\ ~redoReturns(St)
          /\ redo(St).history = history
          /\ redo(St).currentIndex = currentIndex
          /\ redo(St).data = data

\* Two actions were recorded and both undone
C15_Witness ==
    /\ Len(history) = 2
    /\ currentIndex = -1
    /\ nextId = 3

\* The attendance records of the dates a batch of updates touches
OnDates(attendance, updates) ==
    [date \in {updates[i].date : i \in DOMAIN updates} |-> Get(attendance, date)]

\* C21 (SpecUndo): undoing the bulk_edit action batchMarkAttendance recorded
\* restores the record of every affected date to its value before the batch,
\* and redoing it restores the value after the batch
C21_BulkEditUndoRedo ==
    running =>
        \A updates \in UpdateLists :
            LET after == batchMarkAttendance(St, updates)
                undone == undo(after)
                redone == redo(undone)
            IN /\ OnDates(undone.data.attendance, updates)
                    = OnDates(data.attendance, updates)
               /\ OnDates(redone.data.attendance, updates)
                    = OnDates(after.data.attendance, updates)

(***************************************************************************)
(* Properties of the document (Spec)                                       *)
(***************************************************************************)
\* C9: the document always has attendance, notes, summaries and settings,
\* after resetAllData and importData too, so that addNote and saveSkipReason
\* run without a property access on an undefined field
C9_DocumentComplete ==
    running =>
        /\ {"attendance", "notes", "summaries", "settings"} \subseteq DOMAIN data
        /\ NoteSucceeds(St)

\* C10: once summaries[M] exists, no later page load (checkAndAutoReset),
\* attendance edit, undo or redo changes its value
C10_SummaryImmutable ==
    [][(/\ running /\ running'
        /\ \/ Reload
           \/ \E type \in Meals : MarkAttendance(type)
           \/ Undo
           \/ Redo)
       => \A m \in DOMAIN data.summaries :
             /\ m \in DOMAIN data'.summaries
             /\ data'.summaries[m] = data.summaries[m]]_vars

\* C11 (SpecSync): after an operation that mutates the document (marks, bulk
\* marking and clearing, notes, settings, undo, redo), once the batched
\* writer has nothing pending, what local storage holds is the document in
\* memory: loading it gives back the same attendance, summaries, notes and
\* settings
C11_StorageMatchesDocument ==
    running /\ pendingWrites = EmptyObject =>
        /\ ~LoadThrows(St)
        /\ loadData(St).data = data

(***************************************************************************)
(* Properties of the reminders (SpecNotify)                                *)
(***************************************************************************)
\* C12: checkScheduledNotifications never presents a meal reminder for a
\* meal whose flag is true in today's attendance record at the time of the
\* check
C12_NoReminderForMarkedMeal ==
    \A k \in DOMAIN presented :
        k.by = "manager" /\ k.mealType \in Meals => ~k.marked

\* A check found a lunch and a dinner reminder due in the same minute, lunch
\* being marked: the dinner reminder was presented, the lunch reminder not
C12_Witness ==
    \E k \in DOMAIN presented :
        /\ k.by = "manager"
        /\ k.mealType = "dinner"
        /\ k.minute = nm.lastCheckedMinute
        /\ \E x \in nm.scheduledNotifications :
              /\ x.mealType = "lunch"
              /\ x.time = k.minute
              /\ IsMarked(data.attendance, today, "lunch")
              /\ \A j \in DOMAIN presented : j.id # x.id

\* C13: within one minute of the clock a scheduled reminder is presented at
\* most once, whatever the ticks of the timers and the enable, disable and
\* updateNotificationTimes calls in that minute
C13_AtMostOncePerMinute ==
    \A k1, k2 \in DOMAIN presented :
        k1.by = "manager" /\ k2.by = "manager" /\ k1.id = k2.id /\ k1.minute = k2.minute
            => k1 = k2 /\ presented[k1] <= 1

\* C14: once notifications are toggled off, no interval timer of the manager
\* is active and no meal reminder is presented until they are enabled again,
\* not even one whose timer was set before
C14_SilentWhenDisabled ==
    /\ nmDisabled => nm.checkIntervals = {}
    /\ \A k \in DOMAIN presented : k.mealType \in Meals => ~k.off


(***************************************************************************)
(* Properties of the storage manager (SpecStore)                           *)
(***************************************************************************)
\* C16 (SpecStore): when the write of safeSetItem hits a storage-quota error,
\* cleanOldData is run and the write is retried exactly once; when the value
\* is still not written, false is returned and the storage-full warning is
\* shown
C16_CleanRetryOnceThenWarn ==
    sm.called /\ sm.quotaError =>
        /\ sm.cleanRan
        /\ sm.attempts = 2
        /\ ~sm.returned => sm.warned


(***************************************************************************)
(* Properties of the network retry (SpecFetch)                             *)
(***************************************************************************)
\* The attempts of the call so far, their delays and its end agree with C18
FetchAsStated ==
    LET f == fetcher
        n == Len(f.attempts)
    IN /\ n <= f.maxRetries + 1
       /\ \A i \in 1..Len(f.delays) :
             /\ f.attempts[i] \in {"throws", "notOk"}
             /\ i - 1 < f.maxRetries
             /\ f.delays[i] = f.baseDelay * Pow2(i - 1)
       /\ f.phase \in {"fetching", "idle"} => Len(f.delays) = n
       /\ f.phase = "waiting" => Len(f.delays) = n
       /\ f.phase = "returned" =>
             /\ Len(f.delays) = n - 1
             /\ f.result = f.attempts[n]
             /\ f.result \in {"ok", "notOk"}
             /\ f.result = "notOk" => n = f.maxRetries + 1
       /\ f.phase = "threw" =>
             /\ Len(f.delays) = n - 1
             /\ f.attempts[n] = "throws"
             /\ n = f.maxRetries + 1

\* C18 (SpecFetch): fetchWithRetry ends after at most maxRetries + 1
\* attempts; an attempt that throws or whose response is not ok while
\* retryCount < maxRetries is retried after baseDelay * 2^retryCount ms; the
\* last attempt returns its response, ok or not, or throws
C18_FetchWithRetryEnds ==
    /\ []FetchAsStated
    /\ (fetcher.phase = "fetching") ~> (fetcher.phase \in {"returned", "threw"})

\* The last of three attempts returned a response that is not ok
C18_Witness ==
    /\ fetcher.phase = "returned"
    /\ fetcher.result = "notOk"
    /\ fetcher.maxRetries = 2
    /\ fetcher.delays = <<1000, 2000>>


(***************************************************************************)
(* Properties of the service worker (SpecWorker)                           *)
(***************************************************************************)
\* C19 (SpecWorker): a GET request that is cached is answered from the cache
\* without the network; one that is not is answered by the network, and by
\* the 503 placeholder when the fetch fails; a request that is not a GET is
\* not intercepted
C19_CacheFirstThenNetwork ==
    LET e == sw.last
    IN e # NoEvent =>
          /\ e.method # "GET" => ~e.intercepted /\ e.response = NoResponse
          /\ e.method = "GET" /\ e.cached =>
                /\ e.intercepted
                /\ ~e.networkUsed
                /\ e.response = CachedResponse(e.url)
          /\ e.method = "GET" /\ ~e.cached =>
                /\ e.intercepted
                /\ e.networkUsed
                /\ e.response = IF e.outcome = "fails" THEN OfflineResponse(e.url)
                                ELSE NetworkResponse(e.url, e.outcome)

\* A file outside the app shell was fetched, cached, and then served from the
\* cache while the network was down
C19_Witness ==
    /\ sw.last.method = "GET"
    /\ sw.last.url = "/icon.png"
    /\ sw.last.cached
    /\ sw.last.outcome = "fails"
    /\ sw.last.response = CachedResponse("/icon.png")


(***************************************************************************)
(* Properties of the import paths (SpecImport)                             *)
(***************************************************************************)
\* C20 (SpecImport): every import path that replaces the application data
\* (EnhancedImportManager.importData, BackupManager.importBackup and
\* MessTrack.importData) creates a backup of the current data before it
\* overwrites them
C20_BackupBeforeImport ==
    bk.last.replaced => bk.last.before \in bk.last.created


(***************************************************************************)
(* Properties of the validation of markAttendance (SpecValidate)           *)
(***************************************************************************)
\* C22 (SpecValidate): a markAttendance call with a meal type other than
\* lunch or dinner, or for the enhanced manager with a date not of the form
\* YYYY-MM-DD, changes no attendance record, creates no attendance entry,
\* records no undo action, and reports the failure
C22_InvalidCallChangesNothing ==
    (\/ called.handler # "none" /\ called.type \notin Meals
     \/ called.handler = "EnhancedAttendanceManager" /\ ~IsDateText(called.date)) =>
        /\ data.attendance = called.before.attendance
        /\ history = called.before.history
        /\ currentIndex = called.before.currentIndex
        /\ called.reported \in {"console.error", "failure"}

\* Lunch was marked, then the enhanced manager was given a date that is not
\* a date
C22_Witness ==
    /\ called.handler = "EnhancedAttendanceManager"
    /\ called.type \in Meals
    /\ called.date = BadDate
    /\ called.reported = "failure"
    /\ history # <<>>


\* A step of one of the three import paths
ImportStep ==
    \/ \E doc \in ImportDocs : ImportFile(doc)
    \/ \E file \in ImportFiles, confirmed \in BOOLEAN : ImportBackup(file, confirmed)
    \/ \E file \in ImportFiles, backup \in BOOLEAN, strategy \in ConflictStrategies :
          EnhancedImportData(file, backup, strategy)

\* C23 (SpecImport): after a successful import that replaces the application
\* data the undo log is empty (no history, cursor -1), so that undo() and
\* redo() cannot apply an action recorded before the import
C23_ImportEmptiesUndoLog ==
    [][ImportStep /\ bk'.last.replaced =>
           /\ history' = <<>>
           /\ currentIndex' = -1
           /\ ~canUndo([St EXCEPT !.history = history', !.currentIndex = currentIndex'])
           /\ ~canRedo([St EXCEPT !.history = history', !.currentIndex = currentIndex'])]_vars


\* The attendance dates a file holds
FileDates(file) ==
    LET actualData == IF "data" \in DOMAIN file THEN file.data ELSE file
    IN IF "attendance" \in DOMAIN actualData THEN DOMAIN actualData.attendance ELSE {}

\* C24 (SpecImport): after EnhancedImportManager.importData succeeds with its
\* default options (backup, validation, conflictStrategy 'merge'), every
\* attendance date of the file that the local data did not have is in the
\* application data, and no date the local data had is lost
C24_MergeKeepsBothSides ==
    [][\A file \in ImportFiles :
           EnhancedImportData(file, TRUE, "merge") /\ bk'.last.replaced =>
               /\ FileDates(file) \subseteq DOMAIN data'.attendance
               /\ DOMAIN data.attendance \subseteq DOMAIN data'.attendance]_vars


(***************************************************************************)
(* Properties of the upload to GitHub (SpecUpload)                         *)
(***************************************************************************)
\* The outcomes after which C25 lets the call try again
RetriedOutcomes == {"AbortError", "500", "429", "409"}

\* C25 (SpecUpload): uploadToGitHub makes at most `retries` upload attempts
\* and returns true only when a PUT response was ok; it tries again only
\* after a timeout, a 5xx, a 429 or a 409, and any other failed response
\* (401, 404, 422) ends the call with false after a single attempt
C25_UploadRetriesOnlyTransient ==
    LET n == Len(upload.outcomes)
    IN /\ n <= upload.retries
       /\ upload.returned => n >= 1 /\ upload.outcomes[n] = "200"
       /\ \A i \in 1..n :
             (i < n \/ upload.phase = "attempting") =>
                 upload.outcomes[i] \in RetriedOutcomes
       /\ n >= 1 /\ upload.outcomes[1] \in {"401", "404", "422"} =>
             /\ n = 1
             /\ upload.phase = "done"
             /\ ~upload.returned


(***************************************************************************)
(* Properties of the backup reminder (SpecBackup)                          *)
(***************************************************************************)
\* C26 (SpecBackup): after snoozeReminder() the backup reminder is suppressed
\* for one day, and checkBackupStatus shows the banner again as soon as more
\* than one day has passed, whatever the backup frequency
C26_SnoozeLastsOneDay ==
    bm.snoozed /\ bm.checked =>
        bm.shown = (bm.checkedAt - bm.snoozedAt > HalfDaysPerDay)

(***************************************************************************)
(* Properties of the cursor of the undo log (SpecCursor)                   *)
(***************************************************************************)
\* The undo manager of the page that opens after saveHistory: a new manager
\* (empty log, cursor -1) whose constructor calls loadHistory
Reloaded == loadHistory([saveHistory(St) EXCEPT !.history = <<>>, !.currentIndex = -1])

\* C27: loadHistory after saveHistory restores the same history and the same
\* cursor, whatever the cursor is (0 included), so that what can be undone
\* and what can be redone is the same before and after a page reload.
C27_ReloadKeepsUndoLog ==
    running => /\ Reloaded.history = history
               /\ Reloaded.currentIndex = currentIndex
               /\ canUndo(Reloaded) = canUndo(St)
               /\ canRedo(Reloaded) = canRedo(St)

\* The action the cursor designates (none when the cursor is -1)
Designated(s) == IF s.currentIndex >= 0 /\ s.currentIndex < Len(s.history)
                 THEN {s.history[s.currentIndex + 1].id} ELSE {}

KeptIds(s) == {s.history[i].id : i \in 1..Len(s.history)}

Current(answer, attendance) ==
    CASE answer.kind = "stats" ->
            answer.stats = calculateStatsUncached(attendance, answer.key[1])
      [] answer.kind = "range" ->
            answer.range = [d \in RangeDates(attendance, answer.key[1], answer.key[2])
                               |-> attendance[d]]
      [] OTHER -> TRUE

QueryStep ==
    \/ \E monthKey \in StatMonths : CalculateStats(monthKey)
    \/ \E startDate \in InputDates, endDate \in InputDates :
          GetAttendanceRange(startDate, endDate)

\* C29: a statistics query (the memoized calculateStats) or a range query
\* (getAttendanceRange) returns the value computed from the attendance map
\* as it is when the query is made, also after a mutation by mark, undo or
\* redo: never a value cached before the mutation.
C29_QueryReadsCurrentMap ==
    [][QueryStep => Current(memo'.answer, data.attendance)]_vars

(***************************************************************************)
(* Properties of the compression of stored documents (SpecText)            *)
(***************************************************************************)
\* C30: decompressData(compressData(d)) is d for every JSON document d, also
\* when its text holds digits or a run of ten or more equal characters;
\* hence load returns unchanged the document that the batched writer stored
\* with compress: true.
C30_CompressionRoundTrip ==
    rle.phase \in {"decompressed", "loaded"} => rle.read = rle.doc

====
